---------------------------- MODULE Spec2Model ----------------------------
(***************************************************************************)
(* Hospital microgrid dispatch: the cyber-anomaly detector, the controller *)
(* state machine, the safety-invariant checker, the physical assets and    *)
(* the per-timestep simulation loop.                                       *)
(*                                                                         *)
(* Numbers are fixed point.  Power and energy are counted in units of      *)
(* 1/PowerScale kW (kWh; dt = 1), state of charge in units of 1/SocScale.  *)
(* Python's None is the empty tuple, a present value v is <<v>>.           *)
(***************************************************************************)
EXTENDS Integers, Sequences, FiniteSets, TLC

VARIABLES
    cyber,          \* CyberSecurityManager: alert_active, anomaly_now, reason, last values
    sensor_data,    \* the frame given to the last evaluate call
    cyber_alert,    \* what the last evaluate call returned
    calls,          \* number of calls made on the object under test
    ctl_state,      \* MicrogridController.state
    decide_args,    \* the arguments of the last decide call
    decision,       \* the Decision the last decide call returned
    controller,     \* MicrogridSimulator.controller: the shipped class or a stub
    battery,        \* Battery: capacity, soc, max_charge_kw, max_discharge_kw
    generator,      \* DieselGenerator: max_power_kw, is_on
    solar,          \* SolarPV: max_power_kw
    forecaster,     \* whether MicrogridSimulator.forecaster is set
    history_len,    \* len(MicrogridSimulator.history)
    history_last,   \* the load_kw of the last entry appended to MicrogridSimulator.history
    profile,        \* load_profile[t] and solar_profile[t] as read by the last step
    attack,         \* the attack list given to run
    horizon,        \* len(load_profile)
    t,              \* the loop index of run
    pc,             \* "idle", "run", "done" (run returned) or "violation" (SafetyViolation)
    final,          \* the decision dict after the safe-mode override of the last step
    n_results,      \* len(results)
    record,         \* the last record appended to results
    prev,           \* MicrogridSimulator._prev_cyber_alert, _prev_blackout, ...
    summary,        \* the counters of run that make up df.attrs["summary"]
    check_args,     \* the arguments of the last SafetyInvariants.check call
    check_raised,   \* whether that call raised SafetyViolation
    battery_call,   \* the last Battery.charge / Battery.discharge call and what it returned
    twin            \* the same run() without its attacks, stepped alongside: for comparing runs

cyberVars == <<cyber, sensor_data, cyber_alert>>
ctlVars == <<ctl_state, decide_args, decision>>
simVars == <<controller, battery, generator, solar, forecaster, history_len, history_last, profile, attack, horizon, t, pc, final, n_results, record, prev, summary>>
checkVars == <<check_args, check_raised>>
vars == <<cyber, sensor_data, cyber_alert, calls, ctl_state, decide_args, decision, controller, battery, generator, solar, forecaster, history_len, history_last, profile, attack, horizon, t, pc, final, n_results, record, prev, summary, check_args, check_raised, battery_call, twin>>

(***************************************************************************)
(* Representation                                                          *)
(***************************************************************************)
PowerScale == 10
SocScale == 10000

KW(x) == x * PowerScale
SocFrac(pct) == (pct * SocScale) \div 100

None == <<>>
Some(v) == <<v>>
IsNone(o) == o = <<>>
Val(o) == o[1]

Abs(x) == IF x < 0 THEN 0 - x ELSE x
Max(a, b) == IF a > b THEN a ELSE b
Min(a, b) == IF a < b THEN a ELSE b

(***************************************************************************)
(* CyberSecurityManager                                                    *)
(***************************************************************************)
max_soc_jump_per_step == SocFrac(8)
redundant_soc_mismatch == SocFrac(5)
redundant_load_mismatch_frac == 10      \* percent
redundant_solar_mismatch_frac == 15     \* percent
max_load_jump_kw == KW(500)
max_solar_jump_kw == KW(800)

CyberInit ==
    [alert_active |-> FALSE, anomaly_now |-> FALSE, reason |-> "None",
     last_soc |-> None, last_load |-> None, last_solar |-> None]

\* |observed - secure| / max(1.0, |secure|) > frac
MismatchFrac(observed, secure, pct) ==
    Abs(observed - secure) * 100 > pct * Max(KW(1), Abs(secure))

SocOutOfRange(soc) ==
    ~IsNone(soc) /\ (Val(soc) < 0 \/ Val(soc) > SocScale)

SocMismatchLoose(soc, soc_secure) ==
    /\ ~IsNone(soc)
    /\ ~IsNone(soc_secure)
    /\ Abs(Val(soc) - Val(soc_secure)) > 10 * redundant_soc_mismatch
SocMismatch(soc, soc_secure) ==
    /\ ~IsNone(soc)
    /\ ~IsNone(soc_secure)
    /\ Abs(Val(soc) - Val(soc_secure)) > redundant_soc_mismatch

SocJumpAny(soc, last) ==
    /\ ~IsNone(soc)
    /\ ~IsNone(last)
    /\ Abs(Val(soc) - Val(last)) > 0
SocJump(soc, last) ==
    /\ ~IsNone(soc)
    /\ ~IsNone(last)
    /\ Abs(Val(soc) - Val(last)) > max_soc_jump_per_step

LoadNegative(load_kw) == ~IsNone(load_kw) /\ Val(load_kw) < 0

LoadMismatch(load_kw, load_kw_secure) ==
    /\ ~IsNone(load_kw)
    /\ ~IsNone(load_kw_secure)
    /\ MismatchFrac(Val(load_kw), Val(load_kw_secure), redundant_load_mismatch_frac)

LoadJump(load_kw, last) ==
    /\ ~IsNone(load_kw)
    /\ ~IsNone(last)
    /\ Abs(Val(load_kw) - Val(last)) > max_load_jump_kw

SolarNegative(solar_kw) == ~IsNone(solar_kw) /\ Val(solar_kw) < 0

SolarMismatch(solar_kw, solar_kw_secure) ==
    /\ ~IsNone(solar_kw)
    /\ ~IsNone(solar_kw_secure)
    /\ MismatchFrac(Val(solar_kw), Val(solar_kw_secure), redundant_solar_mismatch_frac)

SolarJump(solar_kw, last) ==
    /\ ~IsNone(solar_kw)
    /\ ~IsNone(last)
    /\ Abs(Val(solar_kw) - Val(last)) > max_solar_jump_kw

\* One guarded check of evaluate: "if not anomaly and <cond>: anomaly = True; reason = r".
\* The argument and the result are the pair <<anomaly, reason>>.
CheckDropsEarlier(ar, cond, r) == IF cond THEN <<TRUE, r>> ELSE <<FALSE, ar[2]>>
Check(ar, cond, r) == IF ~ar[1] /\ cond THEN <<TRUE, r>> ELSE ar

\* The nine checks of evaluate in the order of the code; the result is <<anomaly, reason>>.
Detect(self, sd) ==
    LET s0 == <<FALSE, "None">>
        s1 == Check(s0, SocOutOfRange(sd.soc), "soc_out_of_range")
        s2 == Check(s1, SocMismatch(sd.soc, sd.soc_secure), "soc_mismatch")
        s3 == Check(s2, SocJump(sd.soc, self.last_soc), "soc_jump")
        l1 == Check(s3, LoadNegative(sd.load_kw), "load_negative")
        l2 == Check(l1, LoadMismatch(sd.load_kw, sd.load_kw_secure), "load_mismatch")
        l3 == Check(l2, LoadJump(sd.load_kw, self.last_load), "load_jump")
        p1 == Check(l3, SolarNegative(sd.solar_kw), "solar_negative")
        p2 == Check(p1, SolarMismatch(sd.solar_kw, sd.solar_kw_secure), "solar_mismatch")
        p3 == Check(p2, SolarJump(sd.solar_kw, self.last_solar), "solar_jump")
    IN  p3

\* "if x is not None: self._last_x = float(x)"
UpdateLast(last, observed) == IF IsNone(observed) THEN last ELSE observed

\* "if anomaly: self.alert_active = True"
LatchAlertSelfClearing(alert_active, anomaly) == anomaly
LatchAlert(alert_active, anomaly) == alert_active \/ anomaly

\* CyberSecurityManager.evaluate: the manager after the call; the call returns its alert_active.
EvaluateSkipOnAnomaly(self, sd) ==
    LET d == Detect(self, sd)
    IN  [alert_active |-> LatchAlert(self.alert_active, d[1]),
         anomaly_now  |-> d[1],
         reason       |-> IF d[1] THEN d[2] ELSE self.reason,
         last_soc     |-> IF d[1] THEN self.last_soc ELSE UpdateLast(self.last_soc, sd.soc),
         last_load    |-> IF d[1] THEN self.last_load ELSE UpdateLast(self.last_load, sd.load_kw),
         last_solar   |-> IF d[1] THEN self.last_solar
                          ELSE UpdateLast(self.last_solar, sd.solar_kw)]
Evaluate(self, sd) ==
    LET d == Detect(self, sd)
    IN  [alert_active |-> LatchAlert(self.alert_active, d[1]),
         anomaly_now  |-> d[1],
         reason       |-> IF d[1] THEN d[2] ELSE self.reason,
         last_soc     |-> UpdateLast(self.last_soc, sd.soc),
         last_load    |-> UpdateLast(self.last_load, sd.load_kw),
         last_solar   |-> UpdateLast(self.last_solar, sd.solar_kw)]

(***************************************************************************)
(* MicrogridController                                                     *)
(***************************************************************************)
SOC_STRESSED_MIN == SocFrac(60)
SOC_EMERGENCY_MIN == SocFrac(40)
SOC_CRITICAL_PREEMPT == SocFrac(35)
POWER_DEFICIT_MARGIN == 15              \* percent

LOAD_SHED_NONE == 0
LOAD_SHED_T3 == 1
LOAD_SHED_T2 == 2
LOAD_SHED_T1 == 3

REASON_SAFE_MODE == "Cyber or sensor anomaly detected - entering SAFE_MODE"
REASON_PREDICTIVE == "Predictive generator start based on AI load forecast"
REASON_HARD_SOC == "Hard SOC preemption: generator forced ON"
REASON_DEFICIT == "Early generator start due to sustained power deficit"
REASON_NORMAL == "Battery SOC healthy; normal hospital operation"
REASON_STRESSED == "Preventive generator start due to declining SOC"
REASON_EMERGENCY == "Emergency condition: preserving life-critical hospital loads"

RECURSIVE SumSeq(_)
SumSeq(s) == IF s = <<>> THEN 0 ELSE Head(s) + SumSeq(Tail(s))

\* A forecast argument: [given |-> FALSE] is None, otherwise vals is the list.
NoForecast == [given |-> FALSE, vals |-> <<>>]
Forecast(vals) == [given |-> TRUE, vals |-> vals]

\* "if load_forecast": None and the empty list are both false
ForecastTruthy(load_forecast) == load_forecast.given /\ Len(load_forecast.vals) > 0

MkDecisionNoReason(cmd, mode, level, state, safe, reason) ==
    [generator_cmd |-> cmd, battery_mode |-> mode, load_shed_level |-> level,
     state |-> state, safe_mode |-> safe, reason |-> ""]
MkDecision(cmd, mode, level, state, safe, reason) ==
    [generator_cmd |-> cmd, battery_mode |-> mode, load_shed_level |-> level,
     state |-> state, safe_mode |-> safe, reason |-> reason]

NoDecision == MkDecision("None", "None", 0, "None", FALSE, "None")

SafeModeActionStop(reason) ==
    MkDecision("STOP", "PROTECT", LOAD_SHED_T1, "SAFE_MODE", TRUE, reason)
SafeModeAction(reason) ==
    MkDecision("START", "PROTECT", LOAD_SHED_T1, "SAFE_MODE", TRUE, reason)

\* sum(f) / len(f) > load_kw * 1.10 and soc < SOC_STRESSED_MIN, with f non-empty
PredictiveGuard(load_kw, soc, load_forecast) ==
    /\ 10 * SumSeq(load_forecast.vals) > 11 * load_kw * Len(load_forecast.vals)
    /\ soc < SOC_STRESSED_MIN

HardSocGuardStrict(soc, generator_available) ==
    generator_available /\ soc < SOC_CRITICAL_PREEMPT
HardSocGuard(soc, generator_available) ==
    generator_available /\ soc <= SOC_CRITICAL_PREEMPT

\* load_kw - solar_kw > load_kw * POWER_DEFICIT_MARGIN and generator_available
DeficitGuardFullLoad(solar_kw, load_kw, generator_available) ==
    /\ 100 * (load_kw - solar_kw) > 100 * load_kw
    /\ generator_available
DeficitGuard(solar_kw, load_kw, generator_available) ==
    /\ 100 * (load_kw - solar_kw) > POWER_DEFICIT_MARGIN * load_kw
    /\ generator_available

SocStateInclusive(soc) ==
    IF soc <= SOC_EMERGENCY_MIN THEN "EMERGENCY"
    ELSE IF soc <= SOC_STRESSED_MIN THEN "STRESSED"
    ELSE "NORMAL"
SocState(soc) ==
    IF soc < SOC_EMERGENCY_MIN THEN "EMERGENCY"
    ELSE IF soc < SOC_STRESSED_MIN THEN "STRESSED"
    ELSE "NORMAL"

StateActionShedAllInEmergency(state, generator_available) ==
    CASE state = "NORMAL" ->
            MkDecision("STOP", "DISCHARGE", LOAD_SHED_NONE, state, FALSE, REASON_NORMAL)
      [] state = "STRESSED" ->
            MkDecision("START", "DISCHARGE", LOAD_SHED_T3, state, FALSE, REASON_STRESSED)
      [] state = "EMERGENCY" ->
            MkDecision(IF generator_available THEN "START" ELSE "HOLD",
                       "PROTECT", LOAD_SHED_T1, state, FALSE, REASON_EMERGENCY)
StateActionHoldInEmergency(state, generator_available) ==
    CASE state = "NORMAL" ->
            MkDecision("STOP", "DISCHARGE", LOAD_SHED_NONE, state, FALSE, REASON_NORMAL)
      [] state = "STRESSED" ->
            MkDecision("START", "DISCHARGE", LOAD_SHED_T3, state, FALSE, REASON_STRESSED)
      [] state = "EMERGENCY" ->
            MkDecision("HOLD", "PROTECT", LOAD_SHED_T2, state, FALSE, REASON_EMERGENCY)
StateAction(state, generator_available) ==
    CASE state = "NORMAL" ->
            MkDecision("STOP", "DISCHARGE", LOAD_SHED_NONE, state, FALSE, REASON_NORMAL)
      [] state = "STRESSED" ->
            MkDecision("START", "DISCHARGE", LOAD_SHED_T3, state, FALSE, REASON_STRESSED)
      [] state = "EMERGENCY" ->
            MkDecision(IF generator_available THEN "START" ELSE "HOLD",
                       "PROTECT", LOAD_SHED_T2, state, FALSE, REASON_EMERGENCY)

\* Rules 2..6 of decide, taken when cyber_anomaly is false.
DecideHardFirst(state, solar_kw, load_kw, soc, load_forecast, generator_available) ==
    IF HardSocGuard(soc, generator_available)
    THEN [state |-> "EMERGENCY",
          decision |-> MkDecision("START", "PROTECT", LOAD_SHED_T2, "EMERGENCY",
                                  FALSE, REASON_HARD_SOC)]
    ELSE IF /\ ForecastTruthy(load_forecast)
            /\ generator_available
            /\ PredictiveGuard(load_kw, soc, load_forecast)
    THEN [state |-> state,
          decision |-> MkDecision("START", "DISCHARGE", LOAD_SHED_NONE, state,
                                  FALSE, REASON_PREDICTIVE)]
    ELSE IF DeficitGuard(solar_kw, load_kw, generator_available)
    THEN [state |-> state,
          decision |-> MkDecision("START", "DISCHARGE", LOAD_SHED_NONE, state,
                                  FALSE, REASON_DEFICIT)]
    ELSE [state |-> SocState(soc),
          decision |-> StateAction(SocState(soc), generator_available)]

DecideDeficitSetsState(state, solar_kw, load_kw, soc, load_forecast, generator_available) ==
    IF /\ ForecastTruthy(load_forecast)
       /\ generator_available
       /\ PredictiveGuard(load_kw, soc, load_forecast)
    THEN [state |-> state,
          decision |-> MkDecision("START", "DISCHARGE", LOAD_SHED_NONE, state,
                                  FALSE, REASON_PREDICTIVE)]
    ELSE IF HardSocGuard(soc, generator_available)
    THEN [state |-> "EMERGENCY",
          decision |-> MkDecision("START", "PROTECT", LOAD_SHED_T2, "EMERGENCY",
                                  FALSE, REASON_HARD_SOC)]
    ELSE IF DeficitGuard(solar_kw, load_kw, generator_available)
    THEN [state |-> "STRESSED",
          decision |-> MkDecision("START", "DISCHARGE", LOAD_SHED_NONE, "STRESSED",
                                  FALSE, REASON_DEFICIT)]
    ELSE [state |-> SocState(soc),
          decision |-> StateAction(SocState(soc), generator_available)]
DecideNormal(state, solar_kw, load_kw, soc, load_forecast, generator_available) ==
    IF /\ ForecastTruthy(load_forecast)
       /\ generator_available
       /\ PredictiveGuard(load_kw, soc, load_forecast)
    THEN [state |-> state,
          decision |-> MkDecision("START", "DISCHARGE", LOAD_SHED_NONE, state,
                                  FALSE, REASON_PREDICTIVE)]
    ELSE IF HardSocGuard(soc, generator_available)
    THEN [state |-> "EMERGENCY",
          decision |-> MkDecision("START", "PROTECT", LOAD_SHED_T2, "EMERGENCY",
                                  FALSE, REASON_HARD_SOC)]
    ELSE IF DeficitGuard(solar_kw, load_kw, generator_available)
    THEN [state |-> state,
          decision |-> MkDecision("START", "DISCHARGE", LOAD_SHED_NONE, state,
                                  FALSE, REASON_DEFICIT)]
    ELSE [state |-> SocState(soc),
          decision |-> StateAction(SocState(soc), generator_available)]

\* MicrogridController.decide: the controller state after the call and the Decision returned.
DecidePredictiveFirst(state, solar_kw, load_kw, soc, load_forecast, generator_available, cyber_anomaly) ==
    IF /\ ForecastTruthy(load_forecast)
       /\ generator_available
       /\ PredictiveGuard(load_kw, soc, load_forecast)
    THEN [state |-> state,
          decision |-> MkDecision("START", "DISCHARGE", LOAD_SHED_NONE, state,
                                  FALSE, REASON_PREDICTIVE)]
    ELSE IF cyber_anomaly
    THEN [state |-> "SAFE_MODE", decision |-> SafeModeAction(REASON_SAFE_MODE)]
    ELSE DecideNormal(state, solar_kw, load_kw, soc, load_forecast, generator_available)
DecideIgnoringAnomaly(state, solar_kw, load_kw, soc, load_forecast, generator_available, cyber_anomaly) ==
    DecideNormal(state, solar_kw, load_kw, soc, load_forecast, generator_available)
Decide(state, solar_kw, load_kw, soc, load_forecast, generator_available, cyber_anomaly) ==
    IF cyber_anomaly
    THEN [state |-> "SAFE_MODE", decision |-> SafeModeAction(REASON_SAFE_MODE)]
    ELSE DecideNormal(state, solar_kw, load_kw, soc, load_forecast, generator_available)

(***************************************************************************)
(* Assets                                                                  *)
(***************************************************************************)
\* SolarPV.get_power
SolarGetPower(self, available_power_kw) == Min(self.max_power_kw, available_power_kw)

\* DieselGenerator.start / stop; HOLD calls neither
ApplyGeneratorCmdHoldStops(self, generator_cmd) ==
    IF generator_cmd = "START" THEN [self EXCEPT !.is_on = TRUE] ELSE [self EXCEPT !.is_on = FALSE]
ApplyGeneratorCmd(self, generator_cmd) ==
    IF generator_cmd = "START" THEN [self EXCEPT !.is_on = TRUE]
    ELSE IF generator_cmd = "STOP" THEN [self EXCEPT !.is_on = FALSE]
    ELSE self

\* energy / capacity as a state-of-charge difference
SocOf(energy, capacity) == (energy * SocScale) \div capacity
\* soc * capacity as energy
EnergyOf(soc, capacity) == (soc * capacity) \div SocScale

\* Battery.charge(power_kw): the battery after the call and the energy returned
ChargeAnyRate(self, power_kw) ==
    [battery |-> [self EXCEPT !.soc = Min(SocScale, self.soc + SocOf(power_kw, self.capacity))],
     energy |-> power_kw]
ChargeUnclamped(self, power_kw) ==
    LET energy == Min(power_kw, self.max_charge_kw)
    IN  [battery |-> [self EXCEPT !.soc = self.soc + SocOf(energy, self.capacity)],
         energy |-> energy]
Charge(self, power_kw) ==
    LET energy == Min(power_kw, self.max_charge_kw)
    IN  [battery |-> [self EXCEPT !.soc = Min(SocScale, self.soc + SocOf(energy, self.capacity))],
         energy |-> energy]

\* Battery.discharge(power_kw, min_soc): the battery after the call and the energy returned
DischargeUnlimited(self, power_kw, min_soc_arg) ==
    LET min_soc == Max(0, Min(SocScale, min_soc_arg))
        available == Max(0, EnergyOf(self.soc, self.capacity) - EnergyOf(min_soc, self.capacity))
        actual == Min(power_kw, available)
    IN  [battery |-> [self EXCEPT !.soc = Max(min_soc, self.soc - SocOf(actual, self.capacity))],
         energy |-> actual]
Discharge(self, power_kw, min_soc_arg) ==
    LET energy == Min(power_kw, self.max_discharge_kw)
        min_soc == Max(0, Min(SocScale, min_soc_arg))
        available_total == EnergyOf(self.soc, self.capacity)
        reserve == EnergyOf(min_soc, self.capacity)
        available == Max(0, available_total - reserve)
        actual == Min(energy, available)
    IN  [battery |-> [self EXCEPT !.soc = Max(min_soc, self.soc - SocOf(actual, self.capacity))],
         energy |-> actual]

(***************************************************************************)
(* SafetyInvariants, enforce_safe_mode, validate_phase5                    *)
(***************************************************************************)
SOC_FLOOR == SocFrac(30)            \* 0.30 in safety_invariants, safe_mode and run
SOC_UNSAFE == SocFrac(20)           \* 0.20 in run and validate_phase5

\* INVARIANT 2 of SafetyInvariants.check
BatterySacrificedLowFloor(soc, generator_available) == soc < SOC_UNSAFE /\ generator_available
BatterySacrificed(soc, generator_available) == soc < SOC_FLOOR /\ generator_available

\* SafetyInvariants.check raises SafetyViolation
CheckRaisesNoSafeModeRule(soc, generator_cmd, generator_available, load_shed_level, safe_mode) ==
    \/ load_shed_level > 3
    \/ soc > 0 /\ load_shed_level = 3 /\ ~safe_mode
    \/ BatterySacrificed(soc, generator_available)
    \/ soc < SocFrac(40) /\ generator_available /\ generator_cmd # "START"
    \/ generator_cmd \notin {"START", "STOP", "HOLD"}
CheckRaises(soc, generator_cmd, generator_available, load_shed_level, safe_mode) ==
    \/ load_shed_level > 3
    \/ soc > 0 /\ load_shed_level = 3 /\ ~safe_mode
    \/ BatterySacrificed(soc, generator_available)
    \/ soc < SocFrac(40) /\ generator_available /\ generator_cmd # "START"
    \/ safe_mode /\ generator_cmd # "START"
    \/ generator_cmd \notin {"START", "STOP", "HOLD"}

\* SafetyInvariants.check is called bare in the loop of run: a SafetyViolation leaves
\* run, anything else goes on to the validator and the record.
AfterCheckSwallowed(raised) == "run"
AfterCheck(raised) == IF raised THEN "violation" ELSE "run"

\* enforce_safe_mode(sensors)
EnforceSafeModeNoGenerator(sensors) ==
    [use_battery |-> ~(Val(sensors.soc) < SOC_FLOOR),
     use_generator |-> FALSE,
     load_shed_level |-> 3]
EnforceSafeModeSecureSoc(sensors) ==
    [use_battery |-> ~(Val(sensors.soc_secure) < SOC_FLOOR),
     use_generator |-> TRUE,
     load_shed_level |-> 3]
EnforceSafeMode(sensors) ==
    [use_battery |-> ~(Val(sensors.soc) < SOC_FLOOR),
     use_generator |-> TRUE,
     load_shed_level |-> 3]

\* validate_phase5
ValidatePhase5IgnoringBlackout(blackout, critical_served, soc) ==
    critical_served /\ ~(soc < SOC_UNSAFE)
ValidatePhase5(blackout, critical_served, soc) ==
    ~blackout /\ critical_served /\ ~(soc < SOC_UNSAFE)

(***************************************************************************)
(* MicrogridSimulator.run                                                  *)
(***************************************************************************)
CRITICAL_LOAD_KW == KW(30)
FORECAST_MIN_HISTORY == 24

\* An attack dict: spoof_value is optional, scale is in percent
Attack(type, start, end, spoof_value, scale, offset) ==
    [type |-> type, start |-> start, end |-> end, spoof_value |-> spoof_value,
     scale |-> scale, offset |-> offset]
SocSpoof(start, end, value) == Attack("soc_spoof", start, end, Some(value), 100, 0)
LoadSpoof(start, end, scale, offset) == Attack("load_spoof", start, end, None, scale, offset)
SolarSpoof(start, end, scale, offset) == Attack("solar_spoof", start, end, None, scale, offset)

\* "start <= t and (end < 0 or t <= end)"
AttackActiveNoEnd(a, step) == a.start <= step
AttackActive(a, step) == a.start <= step /\ (a.end < 0 \/ step <= a.end)

\* The body of "for a in attacks" for one attack; s holds measured_soc, sensed_load_kw,
\* sensed_solar_kw and attack_active.
ApplyAttack(s, a, step, true_load_kw, solar_kw) ==
    IF ~AttackActive(a, step) THEN s
    ELSE IF a.type = "soc_spoof"
    THEN [s EXCEPT !.attack_active = TRUE,
                   !.measured_soc = IF IsNone(a.spoof_value) THEN @ ELSE Val(a.spoof_value)]
    ELSE IF a.type = "load_spoof"
    THEN [s EXCEPT !.attack_active = TRUE,
                   !.sensed_load_kw = ((true_load_kw * a.scale) \div 100) + a.offset]
    ELSE IF a.type = "solar_spoof"
    THEN [s EXCEPT !.attack_active = TRUE,
                   !.sensed_solar_kw = ((solar_kw * a.scale) \div 100) + a.offset]
    ELSE [s EXCEPT !.attack_active = TRUE]

RECURSIVE ApplyAttacks(_, _, _, _, _)
ApplyAttacks(s, attacks, step, true_load_kw, solar_kw) ==
    IF attacks = <<>> THEN s
    ELSE ApplyAttacks(ApplyAttack(s, Head(attacks), step, true_load_kw, solar_kw),
                      Tail(attacks), step, true_load_kw, solar_kw)

\* What the sensors show at a step: lines 87-131
Sense(attacks, step, true_load_kw, solar_kw, soc) ==
    ApplyAttacks([measured_soc |-> soc, sensed_load_kw |-> true_load_kw,
                  sensed_solar_kw |-> solar_kw, attack_active |-> FALSE],
                 attacks, step, true_load_kw, solar_kw)

\* The sensor_data dict: lines 133-141
SensorData(s, true_load_kw, solar_kw, soc) ==
    [soc |-> Some(s.measured_soc), soc_secure |-> Some(soc),
     load_kw |-> Some(s.sensed_load_kw), load_kw_secure |-> Some(true_load_kw),
     solar_kw |-> Some(s.sensed_solar_kw), solar_kw_secure |-> Some(solar_kw)]

\* A stub controller returns one fixed dict at every call; it may carry the keys
\* use_battery and use_generator (None when absent).
StubController(cmd, mode, level, state, safe, use_battery) ==
    [kind |-> "stub", decision |-> MkDecision(cmd, mode, level, state, safe, "stub"),
     next |-> MkDecision(cmd, mode, level, state, safe, "stub"),
     use_battery |-> use_battery, use_generator |-> None]

\* A scripted controller returns one dict at its first call and another at every later
\* call; where it is in its script is its own state.
ScriptedController(first, later) ==
    [kind |-> "script", decision |-> first, next |-> later,
     use_battery |-> None, use_generator |-> None]

Shipped ==
    [kind |-> "MicrogridController", decision |-> NoDecision, next |-> NoDecision,
     use_battery |-> None, use_generator |-> None]
IsShipped(c) == c.kind = "MicrogridController"

\* controller.decide(solar_kw, load_kw, battery, load_forecast, cyber_anomaly): line 212
ControllerDecide(c, state, solar_kw, load_kw, soc, load_forecast, cyber_anomaly) ==
    IF IsShipped(c)
    THEN LET r == Decide(state, solar_kw, load_kw, soc, load_forecast, TRUE, cyber_anomaly)
         IN  [state |-> r.state, decision |-> r.decision,
              use_battery |-> None, use_generator |-> None]
    ELSE IF c.kind = "script"
    THEN [state |-> "CALLED", decision |-> IF state = "CALLED" THEN c.next ELSE c.decision,
          use_battery |-> c.use_battery, use_generator |-> c.use_generator]
    ELSE [state |-> state, decision |-> c.decision,
          use_battery |-> c.use_battery, use_generator |-> c.use_generator]

\* load_forecast of a step, lines 191-197: None unless a forecaster is configured and
\* the history (this step's entry included) has FORECAST_MIN_HISTORY entries
LoadForecastUngated(has_forecaster, n_history, predicted) == Forecast(predicted)
LoadForecastEarly(has_forecaster, n_history, predicted) ==
    IF has_forecaster /\ n_history >= FORECAST_MIN_HISTORY - 1
    THEN Forecast(predicted) ELSE NoForecast
LoadForecast(has_forecaster, n_history, predicted) ==
    IF has_forecaster /\ n_history >= FORECAST_MIN_HISTORY
    THEN Forecast(predicted) ELSE NoForecast

\* "dict.setdefault(key, True)"
SetDefault(o) == IF IsNone(o) THEN TRUE ELSE Val(o)

\* The safe-mode override, lines 228-237: the decision dict the rest of the step uses
OverrideSkipped(r, alert, sd) ==
    [generator_cmd |-> r.decision.generator_cmd,
     battery_mode |-> r.decision.battery_mode,
     load_shed_level |-> r.decision.load_shed_level,
     state |-> r.decision.state,
     safe_mode |-> r.decision.safe_mode,
     reason |-> r.decision.reason,
     use_battery |-> SetDefault(r.use_battery),
     use_generator |-> SetDefault(r.use_generator)]
Override(r, alert, sd) ==
    [generator_cmd |-> IF alert THEN "START" ELSE r.decision.generator_cmd,
     battery_mode |-> r.decision.battery_mode,
     load_shed_level |-> IF alert THEN EnforceSafeMode(sd).load_shed_level
                         ELSE r.decision.load_shed_level,
     state |-> IF alert THEN "SAFE_MODE" ELSE r.decision.state,
     safe_mode |-> r.decision.safe_mode,
     reason |-> r.decision.reason,
     use_battery |-> IF alert THEN EnforceSafeMode(sd).use_battery
                     ELSE SetDefault(r.use_battery),
     use_generator |-> IF alert THEN EnforceSafeMode(sd).use_generator
                       ELSE SetDefault(r.use_generator)]

\* shed_fraction in percent: lines 250-257
ShedPercentHalfAtTier2(load_shed_level) ==
    IF load_shed_level <= 0 THEN 0
    ELSE IF load_shed_level = 1 THEN 10
    ELSE IF load_shed_level = 2 THEN 50
    ELSE 100
ShedPercent(load_shed_level) ==
    IF load_shed_level <= 0 THEN 0
    ELSE IF load_shed_level = 1 THEN 10
    ELSE IF load_shed_level = 2 THEN 30
    ELSE 100

\* served_load_kw: lines 246-260
ServedLoad(load_kw, load_shed_level) ==
    LET critical_demand_kw == Min(load_kw, CRITICAL_LOAD_KW)
        non_critical_demand_kw == Max(0, load_kw - critical_demand_kw)
    IN  critical_demand_kw
          + (non_critical_demand_kw * (100 - ShedPercent(load_shed_level))) \div 100

\* Power balance and charging, lines 265-296: the assets after the step and what flowed
Dispatch(d, served_load_kw, solar_kw, gen, bat) ==
    LET gen1 == ApplyGeneratorCmd(gen, d.generator_cmd)
        remaining0 == Max(0, served_load_kw - solar_kw)
        gen_kw == IF gen1.is_on /\ d.use_generator
                  THEN Min(gen1.max_power_kw, remaining0) ELSE 0
        remaining_kw == Max(0, remaining0 - gen_kw)
        dis == IF remaining_kw > 0 /\ d.use_battery
               THEN Discharge(bat, remaining_kw, SOC_FLOOR)
               ELSE [battery |-> bat, energy |-> 0]
        supply_kw == solar_kw + gen_kw + dis.energy
        excess_kw == Max(0, solar_kw - served_load_kw)
        chg == IF excess_kw > 0 /\ d.use_battery
               THEN Charge(dis.battery, excess_kw)
               ELSE [battery |-> dis.battery, energy |-> 0]
    IN  [generator |-> gen1, battery |-> chg.battery, gen_kw |-> gen_kw,
         discharged_kw |-> dis.energy, battery_charge_kw |-> chg.energy,
         supply_kw |-> supply_kw,
         blackout |-> supply_kw < served_load_kw,
         critical_served |-> supply_kw >= CRITICAL_LOAD_KW]

(***************************************************************************)
(* The detector driven by an arbitrary stream of frames                    *)
(***************************************************************************)
MaxCalls == 2

FrameSocs == {None, Some(SocFrac(50)), Some(SocFrac(60)), Some(SocFrac(110))}
FrameSocsSecure == {None, Some(SocFrac(50))}
FrameLoads == {None, Some(KW(0 - 10)), Some(KW(100)), Some(KW(120)), Some(KW(700))}
FrameLoadsSecure == {None, Some(KW(100))}
FrameSolars == {None, Some(KW(0)), Some(KW(200)), Some(KW(1100))}
FrameSolarsSecure == {None, Some(KW(200))}

Frames ==
    [soc : FrameSocs, soc_secure : FrameSocsSecure,
     load_kw : FrameLoads, load_kw_secure : FrameLoadsSecure,
     solar_kw : FrameSolars, solar_kw_secure : FrameSolarsSecure]

NoFinal ==
    [generator_cmd |-> "None", battery_mode |-> "None", load_shed_level |-> 0,
     state |-> "None", safe_mode |-> FALSE, reason |-> "None",
     use_battery |-> TRUE, use_generator |-> TRUE]

NoRecord ==
    [time |-> 0 - 1, load_kw |-> 0, sensed_load_kw |-> 0, solar_kw |-> 0,
     sensed_solar_kw |-> 0, generator_kw |-> 0, battery_kw |-> 0,
     battery_charge_kw |-> 0, battery_soc |-> 0, generator_cmd |-> "None",
     generator_on |-> FALSE, state |-> "None", cyber_alert |-> FALSE,
     cyber_anomaly_now |-> FALSE, cyber_reason |-> "None", attack_active |-> FALSE,
     ai_forecast |-> FALSE, ai_triggered |-> FALSE, load_shed_level |-> 0,
     served_load_kw |-> 0, blackout |-> FALSE, critical_served |-> FALSE,
     unsafe |-> FALSE, validator_ok |-> FALSE, reason |-> "None"]

\* self._prev_* as set by __init__
PrevInit ==
    [cyber_alert |-> FALSE, blackout |-> FALSE, critical_lost |-> FALSE, unsafe |-> FALSE]

\* The counters of run, lines 67-79
SummaryInit ==
    [blackout_count |-> 0, critical_lost_count |-> 0, unsafe_count |-> 0,
     validator_fail_count |-> 0, cyber_blackout_count |-> 0, cyber_alert_count |-> 0,
     cyber_alert_active_steps |-> 0, cyber_anomaly_steps |-> 0,
     attack_active_steps |-> 0, cyber_first_timestep |-> None,
     ai_forecast_count |-> 0, ai_trigger_count |-> 0]

\* No profile entry read yet
NoProfile == [load_kw |-> 0, solar_kw |-> 0]

\* No simulator: the detector or the controller is driven on its own.
SimIdle ==
    /\ controller = Shipped
    /\ battery = [capacity |-> KW(100), soc |-> SocFrac(50),
                  max_charge_kw |-> KW(50), max_discharge_kw |-> KW(50)]
    /\ generator = [max_power_kw |-> KW(100), is_on |-> FALSE]
    /\ solar = [max_power_kw |-> KW(130)]
    /\ forecaster = FALSE
    /\ history_len = 0
    /\ history_last = None
    /\ profile = NoProfile
    /\ attack = <<>>
    /\ horizon = 0
    /\ t = 0
    /\ pc = "idle"
    /\ final = NoFinal
    /\ n_results = 0
    /\ record = NoRecord
    /\ prev = PrevInit
    /\ summary = SummaryInit

NoFrame ==
    [soc |-> None, soc_secure |-> None, load_kw |-> None, load_kw_secure |-> None,
     solar_kw |-> None, solar_kw_secure |-> None]

NoArgs ==
    [solar_kw |-> 0, load_kw |-> 0, soc |-> 0, load_forecast |-> NoForecast,
     generator_available |-> TRUE, cyber_anomaly |-> FALSE, state |-> "NORMAL"]

CtlIdle ==
    /\ ctl_state = "NORMAL"
    /\ decide_args = NoArgs
    /\ decision = NoDecision

CyberIdle ==
    /\ cyber = CyberInit
    /\ sensor_data = NoFrame
    /\ cyber_alert = FALSE

NoCheck ==
    [soc |-> 0, generator_cmd |-> "None", generator_available |-> FALSE,
     load_shed_level |-> 0, safe_mode |-> FALSE]

\* SafetyInvariants.check has not been called
CheckIdle ==
    /\ check_args = NoCheck
    /\ check_raised = FALSE

NoBatteryCall == [op |-> "None", power_kw |-> 0, min_soc |-> 0, soc |-> 0, energy |-> 0]

\* No Battery method has been called directly
BatteryIdle == battery_call = NoBatteryCall

\* No second run is stepped alongside
NoTwin == [pc |-> "idle"]
TwinIdle == twin = NoTwin

InitCyber ==
    /\ CyberIdle
    /\ CtlIdle
    /\ SimIdle
    /\ CheckIdle
    /\ BatteryIdle
    /\ TwinIdle
    /\ calls = 0

EvaluateCall ==
    /\ calls < MaxCalls
    /\ \E sd \in Frames :
        /\ sensor_data' = sd
        /\ cyber' = Evaluate(cyber, sd)
        /\ cyber_alert' = cyber'.alert_active
    /\ calls' = calls + 1
    /\ UNCHANGED <<ctlVars, simVars, checkVars, battery_call, twin>>

NextCyber == EvaluateCall

SpecCyber == InitCyber /\ [][NextCyber]_vars

\* C1: once an evaluate call has returned alert_active = true, every later call
\* on the same manager returns true, whatever the later frames contain.
C1_LatchMonotonic == [][cyber_alert => cyber_alert']_vars

\* A latched manager that has just evaluated a clean frame and still returned true.
C1_Witness == calls >= 2 /\ cyber_alert /\ ~cyber.anomaly_now

\* The rules as the detection contract lists them, with its own thresholds
C7_Present(sd, f) == ~IsNone(sd[f])
C7_ListedRule(sd, self) ==
    \/ C7_Present(sd, "soc") /\ (Val(sd.soc) < 0 \/ Val(sd.soc) > SocScale)
    \/ /\ C7_Present(sd, "soc") /\ C7_Present(sd, "soc_secure")
       /\ 100 * Abs(Val(sd.soc) - Val(sd.soc_secure)) > 5 * SocScale
    \/ /\ C7_Present(sd, "load_kw") /\ C7_Present(sd, "load_kw_secure")
       /\ 100 * Abs(Val(sd.load_kw) - Val(sd.load_kw_secure))
            > 10 * Max(PowerScale, Abs(Val(sd.load_kw_secure)))
    \/ /\ C7_Present(sd, "solar_kw") /\ C7_Present(sd, "solar_kw_secure")
       /\ 100 * Abs(Val(sd.solar_kw) - Val(sd.solar_kw_secure))
            > 15 * Max(PowerScale, Abs(Val(sd.solar_kw_secure)))
    \/ /\ C7_Present(sd, "soc") /\ ~IsNone(self.last_soc)
       /\ 100 * Abs(Val(sd.soc) - Val(self.last_soc)) > 8 * SocScale
    \/ /\ C7_Present(sd, "load_kw") /\ ~IsNone(self.last_load)
       /\ Abs(Val(sd.load_kw) - Val(self.last_load)) > 500 * PowerScale
    \/ /\ C7_Present(sd, "solar_kw") /\ ~IsNone(self.last_solar)
       /\ Abs(Val(sd.solar_kw) - Val(self.last_solar)) > 800 * PowerScale

\* C7: whenever one of the listed rules holds of the frame (and, for the step-change
\* rules, of the manager's last observed value), evaluate sets anomaly_now and
\* returns alert_active = true, whatever the other signals are.
C7_DetectionRules ==
    [][C7_ListedRule(sensor_data', cyber) => cyber'.anomaly_now /\ cyber_alert']_vars

\* The last rule in the chain (solar step change) fired on an otherwise clean frame.
C7_Witness == cyber.anomaly_now /\ cyber.reason = "solar_jump" /\ cyber_alert

\* What one evaluate call does to one last-seen value: it takes the observed value of
\* the frame when there is one and is left alone when the frame has none
C23_Tracks(last_after, last_before, observed) ==
    IF observed = <<>> THEN last_after = last_before ELSE last_after = observed
\* A step-change rule may only fire on a difference from the previous observed value
C23_JumpFrom(observed, previous, limit) ==
    /\ observed # <<>>
    /\ previous # <<>>
    /\ Abs(observed[1] - previous[1]) > limit

\* C23: after every evaluate call the manager's last soc, load and solar are the observed
\* values of that frame, anomalous or not; an observed value repeated from the previous
\* frame never fires its step-change rule, and a step-change rule that fires has compared
\* the observed value with the previous observed value.
C23_LastSeenTracksObserved ==
    [][/\ C23_Tracks(cyber'.last_soc, cyber.last_soc, sensor_data'.soc)
       /\ C23_Tracks(cyber'.last_load, cyber.last_load, sensor_data'.load_kw)
       /\ C23_Tracks(cyber'.last_solar, cyber.last_solar, sensor_data'.solar_kw)
       /\ (cyber'.anomaly_now /\ cyber'.reason = "soc_jump") =>
             C23_JumpFrom(sensor_data'.soc, cyber.last_soc, (8 * SocScale) \div 100)
       /\ (cyber'.anomaly_now /\ cyber'.reason = "load_jump") =>
             C23_JumpFrom(sensor_data'.load_kw, cyber.last_load, 500 * PowerScale)
       /\ (cyber'.anomaly_now /\ cyber'.reason = "solar_jump") =>
             C23_JumpFrom(sensor_data'.solar_kw, cyber.last_solar, 800 * PowerScale)
       /\ (sensor_data'.soc # <<>> /\ sensor_data'.soc = sensor_data.soc) =>
             ~(cyber'.anomaly_now /\ cyber'.reason = "soc_jump")
       /\ (sensor_data'.load_kw # <<>> /\ sensor_data'.load_kw = sensor_data.load_kw) =>
             ~(cyber'.anomaly_now /\ cyber'.reason = "load_jump")
       /\ (sensor_data'.solar_kw # <<>> /\ sensor_data'.solar_kw = sensor_data.solar_kw) =>
             ~(cyber'.anomaly_now /\ cyber'.reason = "solar_jump")]_vars

\* A spoofed load of 700 kW (secure 100 kW) was flagged, became the last-seen load, and
\* its repetition on the next frame was flagged as a mismatch, not as a step change.
C23_Witness ==
    /\ calls = 2
    /\ sensor_data.load_kw = Some(KW(700))
    /\ sensor_data.load_kw_secure = Some(KW(100))
    /\ cyber.last_load = Some(KW(700))
    /\ cyber.anomaly_now
    /\ cyber.reason = "load_mismatch"
    /\ cyber.last_soc = None

(***************************************************************************)
(* The controller driven by arbitrary calls of decide                      *)
(***************************************************************************)
ArgSolars == {KW(0), KW(85)}
ArgLoads == {KW(100), KW(80)}
ArgSocs == {SocFrac(0), SocFrac(30), SocFrac(35), SocFrac(36), SocFrac(39), SocFrac(40),
            SocFrac(50), SocFrac(59), SocFrac(60), SocFrac(100)}
ArgForecasts == {NoForecast, Forecast(<<>>), Forecast(<<KW(110)>>),
                 Forecast(<<KW(100), KW(121)>>), Forecast(<<KW(60), KW(70)>>)}

InitCtl ==
    /\ CyberIdle
    /\ CtlIdle
    /\ SimIdle
    /\ CheckIdle
    /\ BatteryIdle
    /\ TwinIdle
    /\ calls = 0

DecideCall ==
    /\ calls < MaxCalls
    /\ \E solar_kw \in ArgSolars, load_kw \in ArgLoads, soc \in ArgSocs,
          load_forecast \in ArgForecasts, generator_available \in BOOLEAN,
          cyber_anomaly \in BOOLEAN :
        \E r \in {Decide(ctl_state, solar_kw, load_kw, soc, load_forecast,
                         generator_available, cyber_anomaly)} :
            /\ decide_args' =
                  [solar_kw |-> solar_kw, load_kw |-> load_kw, soc |-> soc,
                   load_forecast |-> load_forecast,
                   generator_available |-> generator_available,
                   cyber_anomaly |-> cyber_anomaly, state |-> ctl_state]
            /\ ctl_state' = r.state
            /\ decision' = r.decision
    /\ calls' = calls + 1
    /\ UNCHANGED <<cyberVars, simVars, checkVars, battery_call, twin>>

NextCtl == DecideCall

SpecCtl == InitCtl /\ [][NextCtl]_vars

Called == calls > 0

\* C2: decide with cyber_anomaly = true returns START / PROTECT / tier 3 / SAFE_MODE /
\* safe_mode = true and leaves the controller in SAFE_MODE, for all other inputs.
C2_FailSafeFirst ==
    (Called /\ decide_args.cyber_anomaly) =>
        /\ decision.generator_cmd = "START"
        /\ decision.battery_mode = "PROTECT"
        /\ decision.load_shed_level = 3
        /\ decision.state = "SAFE_MODE"
        /\ decision.safe_mode
        /\ ctl_state = "SAFE_MODE"

\* The anomaly flag overrode a call that the predictive rule would have taken.
C2_Witness ==
    /\ Called /\ decide_args.cyber_anomaly
    /\ decide_args.generator_available
    /\ ForecastTruthy(decide_args.load_forecast)
    /\ PredictiveGuard(decide_args.load_kw, decide_args.soc, decide_args.load_forecast)
    /\ decide_args.state = "EMERGENCY"
    /\ decision.safe_mode

\* C6: every Decision decide returns has safe_mode => generator_cmd = START.
C6_SafeModeStarts == (Called /\ decision.safe_mode) => decision.generator_cmd = "START"

\* A safe-mode Decision returned although no generator is available.
C6_Witness == Called /\ decision.safe_mode /\ ~decide_args.generator_available

\* C9: decide with no anomaly, no forecast, a generator available and soc <= 0.35
\* returns EMERGENCY / START / PROTECT / tier 2 and leaves the controller in EMERGENCY.
C9_HardSocPreemption ==
    (/\ Called
     /\ ~decide_args.cyber_anomaly
     /\ ~decide_args.load_forecast.given
     /\ decide_args.generator_available
     /\ 100 * decide_args.soc <= 35 * SocScale) =>
        /\ decision.state = "EMERGENCY"
        /\ decision.generator_cmd = "START"
        /\ decision.battery_mode = "PROTECT"
        /\ decision.load_shed_level = 2
        /\ ctl_state = "EMERGENCY"

\* The rule fired exactly at the threshold, from SAFE_MODE, with solar covering the load.
C9_Witness ==
    /\ Called
    /\ ~decide_args.cyber_anomaly
    /\ ~decide_args.load_forecast.given
    /\ decide_args.generator_available
    /\ 100 * decide_args.soc = 35 * SocScale
    /\ decide_args.state = "SAFE_MODE"
    /\ decide_args.solar_kw >= decide_args.load_kw
    /\ decision.reason = REASON_HARD_SOC

\* The guard of the predictive rule, on the arguments of the last call
C10_PredictiveGuardHolds ==
    /\ Called
    /\ ~decide_args.cyber_anomaly
    /\ decide_args.load_forecast.given
    /\ Len(decide_args.load_forecast.vals) > 0
    /\ 10 * SumSeq(decide_args.load_forecast.vals)
          > 11 * decide_args.load_kw * Len(decide_args.load_forecast.vals)
    /\ 100 * decide_args.soc < 60 * SocScale
    /\ decide_args.generator_available

\* C10: with no anomaly, a non-empty forecast whose mean exceeds 1.10 * load_kw,
\* soc < 0.60 and a generator available, decide returns START / tier 0 with the
\* AI-predictive reason, also for soc <= 0.35 where the hard SOC rule would match.
C10_PredictivePrecedence ==
    C10_PredictiveGuardHolds =>
        /\ decision.generator_cmd = "START"
        /\ decision.load_shed_level = 0
        /\ decision.reason = REASON_PREDICTIVE

\* The predictive rule was selected at a soc where the hard SOC rule matches too.
C10_Witness ==
    /\ C10_PredictiveGuardHolds
    /\ 100 * decide_args.soc <= 35 * SocScale
    /\ decision.reason = REASON_PREDICTIVE

\* The rules that come before the SOC tiers, on the arguments of the last call
C11_PredictiveFires ==
    /\ decide_args.generator_available
    /\ decide_args.load_forecast.given
    /\ Len(decide_args.load_forecast.vals) > 0
    /\ 10 * SumSeq(decide_args.load_forecast.vals)
          > 11 * decide_args.load_kw * Len(decide_args.load_forecast.vals)
    /\ 100 * decide_args.soc < 60 * SocScale
C11_DeficitAbove15Percent ==
    100 * (decide_args.load_kw - decide_args.solar_kw) > 15 * decide_args.load_kw

\* C11: decide with no anomaly, a generator available, soc > 0.35, the predictive rule
\* not firing and load_kw - solar_kw > 0.15 * load_kw returns START / DISCHARGE / tier 0.
C11_DeficitPreemption ==
    (/\ Called
     /\ ~decide_args.cyber_anomaly
     /\ decide_args.generator_available
     /\ 100 * decide_args.soc > 35 * SocScale
     /\ ~C11_PredictiveFires
     /\ C11_DeficitAbove15Percent) =>
        /\ decision.generator_cmd = "START"
        /\ decision.battery_mode = "DISCHARGE"
        /\ decision.load_shed_level = 0

\* The scenario soc 0.5, load 100 kW, solar 0 kW, decided by the deficit rule.
C11_Witness ==
    /\ Called
    /\ ~decide_args.cyber_anomaly
    /\ decide_args.generator_available
    /\ decide_args.soc = SocFrac(50)
    /\ decide_args.load_kw = KW(100)
    /\ decide_args.solar_kw = KW(0)
    /\ ~C11_PredictiveFires
    /\ decision.reason = REASON_DEFICIT

\* None of rules 1-4 fires on the arguments of the last call
C12_NoEarlierRule ==
    /\ Called
    /\ ~decide_args.cyber_anomaly
    /\ ~C11_PredictiveFires
    /\ ~(decide_args.generator_available /\ 100 * decide_args.soc <= 35 * SocScale)
    /\ ~(decide_args.generator_available /\ C11_DeficitAbove15Percent)
C12_Tier ==
    IF 100 * decide_args.soc < 40 * SocScale THEN "EMERGENCY"
    ELSE IF 100 * decide_args.soc < 60 * SocScale THEN "STRESSED"
    ELSE "NORMAL"

\* C12: when none of rules 1-4 fires, decide sets the controller state from soc alone
\* (soc < 0.40 EMERGENCY, else soc < 0.60 STRESSED, else NORMAL, whatever the previous
\* state) and returns that state's action: NORMAL = STOP / tier 0, STRESSED = START /
\* tier 1, EMERGENCY = (START if generator_available else HOLD) / PROTECT / tier 2.
C12_SocTierTransition ==
    C12_NoEarlierRule =>
        /\ ctl_state = C12_Tier
        /\ decision.state = C12_Tier
        /\ C12_Tier = "NORMAL" =>
              decision.generator_cmd = "STOP" /\ decision.load_shed_level = 0
        /\ C12_Tier = "STRESSED" =>
              decision.generator_cmd = "START" /\ decision.load_shed_level = 1
        /\ C12_Tier = "EMERGENCY" =>
              /\ decision.generator_cmd =
                    (IF decide_args.generator_available THEN "START" ELSE "HOLD")
              /\ decision.battery_mode = "PROTECT"
              /\ decision.load_shed_level = 2

\* A controller left in SAFE_MODE by the previous call moved to STRESSED at exactly
\* soc 0.40, with no generator available and the whole load as deficit.
C12_Witness ==
    /\ C12_NoEarlierRule
    /\ decide_args.state = "SAFE_MODE"
    /\ ~decide_args.generator_available
    /\ decide_args.soc = SocFrac(40)
    /\ decide_args.solar_kw = KW(0)
    /\ ctl_state = "STRESSED"

\* C22: decide returns, for every combination of arguments and previous state, a
\* Decision with generator_cmd in {START, STOP, HOLD}, battery_mode in {DISCHARGE,
\* PROTECT}, load_shed_level in 0..3, state in {NORMAL, STRESSED, EMERGENCY, SAFE_MODE},
\* a boolean safe_mode and a non-empty reason.
C22_DecideTotal ==
    Called =>
        /\ decision.generator_cmd \in {"START", "STOP", "HOLD"}
        /\ decision.battery_mode \in {"DISCHARGE", "PROTECT"}
        /\ decision.load_shed_level \in {0, 1, 2, 3}
        /\ decision.state \in {"NORMAL", "STRESSED", "EMERGENCY", "SAFE_MODE"}
        /\ decision.safe_mode \in BOOLEAN
        /\ decision.reason # ""
        /\ decision.reason # "None"

\* The last branch of decide answered: an empty battery, no generator, no anomaly.
C22_Witness ==
    /\ Called
    /\ ~decide_args.cyber_anomaly
    /\ ~decide_args.generator_available
    /\ decide_args.soc = SocFrac(0)
    /\ decide_args.state = "SAFE_MODE"
    /\ decision.generator_cmd = "HOLD"
    /\ decision.state = "EMERGENCY"

\* C25: every Decision decide returns when soc < 0.40 and generator_available is true
\* has generator_cmd = START, for every load, solar, forecast, cyber_anomaly and
\* previous state.
C25_GeneratorAnticipates ==
    (/\ Called
     /\ 100 * decide_args.soc < 40 * SocScale
     /\ decide_args.generator_available) =>
        decision.generator_cmd = "START"

\* soc 0.39 with solar covering 85% of the load: only the EMERGENCY tier action is left
\* to start the generator.
C25_Witness ==
    /\ Called
    /\ decide_args.soc = SocFrac(39)
    /\ decide_args.generator_available
    /\ ~decide_args.cyber_anomaly
    /\ ~C11_PredictiveFires
    /\ ~C11_DeficitAbove15Percent
    /\ decision.state = "EMERGENCY"
    /\ decision.generator_cmd = "START"

\* C27: over every sequence of decide calls on one controller, a returned Decision has
\* state = SAFE_MODE if and only if its safe_mode is true.
C27_StateAgreesWithSafeMode ==
    Called => (decision.state = "SAFE_MODE" <=> decision.safe_mode)

\* The predictive or the power-deficit rule answers the call just made
C28_PredictiveOrDeficitFires ==
    /\ ~decide_args.cyber_anomaly
    /\ \/ C11_PredictiveFires
       \/ /\ decide_args.generator_available
          /\ 100 * decide_args.soc > 35 * SocScale
          /\ C11_DeficitAbove15Percent

\* C28: a call to decide changes neither the battery's state of charge nor the
\* generator's on/off state; it may change only the controller's own state, which the
\* predictive rule and the power-deficit rule leave as it was.
C28_DecideReadsAssets ==
    [][calls' = calls + 1 =>
          /\ battery' = battery
          /\ generator' = generator
          /\ solar' = solar
          /\ cyber' = cyber
          /\ C28_PredictiveOrDeficitFires' =>
                ctl_state' = ctl_state /\ decision'.state = ctl_state]_vars

\* The power-deficit rule answered a controller that an earlier call had left in
\* EMERGENCY, and left it there.
C28_Witness ==
    /\ calls = 2
    /\ decide_args.state = "EMERGENCY"
    /\ C28_PredictiveOrDeficitFires
    /\ ~C11_PredictiveFires
    /\ ctl_state = "EMERGENCY"
    /\ decision.state = "EMERGENCY"
    /\ decision.generator_cmd = "START"
    /\ decision.load_shed_level = 0

(***************************************************************************)
(* SafetyInvariants.check called with arbitrary arguments                  *)
(***************************************************************************)
CheckSocs == {SocFrac(0), SocFrac(10), SocFrac(29), SocFrac(30), SocFrac(39), SocFrac(40),
              SocFrac(100)}
CheckCmds == {"START", "STOP", "HOLD", "RESTART"}
CheckLevels == {0 - 1, 0, 1, 2, 3, 4}

InitCheck ==
    /\ CyberIdle
    /\ CtlIdle
    /\ SimIdle
    /\ CheckIdle
    /\ BatteryIdle
    /\ TwinIdle
    /\ calls = 0

CheckCall ==
    /\ calls < MaxCalls
    /\ \E soc \in CheckSocs, generator_cmd \in CheckCmds, generator_available \in BOOLEAN,
          load_shed_level \in CheckLevels, safe_mode \in BOOLEAN :
        /\ check_args' =
              [soc |-> soc, generator_cmd |-> generator_cmd,
               generator_available |-> generator_available,
               load_shed_level |-> load_shed_level, safe_mode |-> safe_mode]
        /\ check_raised' = CheckRaises(soc, generator_cmd, generator_available,
                                       load_shed_level, safe_mode)
    /\ calls' = calls + 1
    /\ UNCHANGED <<cyberVars, ctlVars, simVars, battery_call, twin>>

NextCheck == CheckCall

SpecCheck == InitCheck /\ [][NextCheck]_vars

CheckCalled == check_args # NoCheck

\* The six conditions as the safety contract lists them
C13_Listed ==
    \/ check_args.load_shed_level > 3
    \/ /\ check_args.load_shed_level = 3
       /\ check_args.soc > 0
       /\ ~check_args.safe_mode
    \/ 100 * check_args.soc < 30 * SocScale /\ check_args.generator_available
    \/ /\ 100 * check_args.soc < 40 * SocScale
       /\ check_args.generator_available
       /\ check_args.generator_cmd # "START"
    \/ check_args.safe_mode /\ check_args.generator_cmd # "START"
    \/ check_args.generator_cmd \notin {"START", "STOP", "HOLD"}

\* C13: SafetyInvariants.check raises SafetyViolation if and only if one of the six
\* listed conditions holds of its arguments, and changes nothing but its outcome.
C13_CheckRaisesIff ==
    /\ CheckCalled => (check_raised <=> C13_Listed)
    /\ cyber = CyberInit /\ ctl_state = "NORMAL" /\ pc = "idle" /\ battery_call = NoBatteryCall

\* A call that raised for the safe-mode rule alone: safe_mode with HOLD at a full battery.
C13_Witness ==
    /\ CheckCalled
    /\ check_raised
    /\ check_args.safe_mode
    /\ check_args.generator_cmd = "HOLD"
    /\ check_args.load_shed_level = 3
    /\ check_args.soc = SocFrac(100)
    /\ ~check_args.generator_available

(***************************************************************************)
(* A Battery driven by arbitrary charge and discharge calls                *)
(***************************************************************************)
BatterySizings ==
    {[capacity |-> KW(100), max_charge_kw |-> KW(50), max_discharge_kw |-> KW(50)],
     [capacity |-> KW(1000), max_charge_kw |-> KW(100), max_discharge_kw |-> KW(100)]}
BatteryInitialSocs == {SocFrac(0), SocFrac(25), SocFrac(50), SocFrac(100)}
CallPowers == {KW(0), KW(20), KW(50), KW(80)}
CallMinSocs == {SocFrac(0 - 50), SocFrac(0), SocFrac(30), SocFrac(60), SocFrac(100),
                SocFrac(150)}

InitBattery ==
    /\ CyberIdle
    /\ CtlIdle
    /\ CheckIdle
    /\ BatteryIdle
    /\ TwinIdle
    /\ calls = 0
    /\ controller = Shipped
    /\ \E sizing \in BatterySizings, soc_init \in BatteryInitialSocs :
          battery = [capacity |-> sizing.capacity, soc |-> soc_init,
                     max_charge_kw |-> sizing.max_charge_kw,
                     max_discharge_kw |-> sizing.max_discharge_kw]
    /\ generator = [max_power_kw |-> KW(100), is_on |-> FALSE]
    /\ solar = [max_power_kw |-> KW(130)]
    /\ forecaster = FALSE
    /\ history_len = 0
    /\ history_last = None
    /\ profile = NoProfile
    /\ attack = <<>>
    /\ horizon = 0
    /\ t = 0
    /\ pc = "idle"
    /\ final = NoFinal
    /\ n_results = 0
    /\ record = NoRecord
    /\ prev = PrevInit
    /\ summary = SummaryInit

batteryFrame == <<twin, cyberVars, ctlVars, checkVars, controller, generator, solar, forecaster, history_len, history_last, profile, attack, horizon, t, pc, final, n_results, record, prev, summary>>

ChargeCall ==
    /\ calls < MaxCalls
    /\ \E power_kw \in CallPowers :
        \E r \in {Charge(battery, power_kw)} :
            /\ battery' = r.battery
            /\ battery_call' = [op |-> "charge", power_kw |-> power_kw, min_soc |-> 0,
                                soc |-> battery.soc, energy |-> r.energy]
    /\ calls' = calls + 1
    /\ UNCHANGED batteryFrame

DischargeCall ==
    /\ calls < MaxCalls
    /\ \E power_kw \in CallPowers, min_soc \in CallMinSocs :
        \E r \in {Discharge(battery, power_kw, min_soc)} :
            /\ battery' = r.battery
            /\ battery_call' = [op |-> "discharge", power_kw |-> power_kw,
                                min_soc |-> min_soc, soc |-> battery.soc,
                                energy |-> r.energy]
    /\ calls' = calls + 1
    /\ UNCHANGED batteryFrame

NextBattery == ChargeCall \/ DischargeCall

SpecBattery == InitBattery /\ [][NextBattery]_vars

\* C19: from an initial SOC in [0, 1], after any sequence of charge and discharge
\* calls with non-negative power and any min_soc, the battery's soc is within [0, 1].
C19_SocWithinUnit == 0 <= battery.soc /\ battery.soc <= SocScale

\* A charge that would have carried the battery past 1.0, after an earlier call.
C19_Witness ==
    /\ calls >= 2
    /\ battery_call.op = "charge"
    /\ battery_call.soc + SocOf(battery_call.energy, battery.capacity) > SocScale
    /\ battery.soc = SocScale

\* C35: for every battery state and every call discharge(power, min_soc) with
\* power >= 0, the SOC after the call is <= the SOC before it and equals the SOC
\* before minus returned_energy / capacity, also when the SOC before the call is
\* already below min_soc.
C35_DischargeNeverRaises ==
    (battery_call.op = "discharge" /\ battery_call.power_kw >= 0) =>
        /\ battery.soc <= battery_call.soc
        /\ battery.soc = battery_call.soc - SocOf(battery_call.energy, battery.capacity)

(***************************************************************************)
(* One run of the simulator                                                *)
(***************************************************************************)
MaxHorizon == 2

Bump(b) == IF b THEN 1 ELSE 0

\* The counters after one completed loop iteration
CountEveryAlertStep(sm, step, attack_active, alert, anomaly_now, prev_alert, ai_forecast, ai_triggered, blackout, critical_served, unsafe, validator_ok) ==
    [blackout_count |-> sm.blackout_count + Bump(blackout),
     critical_lost_count |-> sm.critical_lost_count + Bump(~critical_served),
     unsafe_count |-> sm.unsafe_count + Bump(unsafe),
     validator_fail_count |-> sm.validator_fail_count + Bump(~validator_ok),
     cyber_blackout_count |-> sm.cyber_blackout_count + Bump(blackout /\ alert),
     cyber_alert_count |-> sm.cyber_alert_count + Bump(alert),
     cyber_alert_active_steps |-> sm.cyber_alert_active_steps + Bump(alert),
     cyber_anomaly_steps |-> sm.cyber_anomaly_steps + Bump(anomaly_now),
     attack_active_steps |-> sm.attack_active_steps + Bump(attack_active),
     cyber_first_timestep |->
        IF alert /\ ~prev_alert /\ IsNone(sm.cyber_first_timestep)
        THEN Some(step) ELSE sm.cyber_first_timestep,
     ai_forecast_count |-> sm.ai_forecast_count + Bump(ai_forecast),
     ai_trigger_count |-> sm.ai_trigger_count + Bump(ai_triggered)]
Count(sm, step, attack_active, alert, anomaly_now, prev_alert, ai_forecast, ai_triggered, blackout, critical_served, unsafe, validator_ok) ==
    [blackout_count |-> sm.blackout_count + Bump(blackout),
     critical_lost_count |-> sm.critical_lost_count + Bump(~critical_served),
     unsafe_count |-> sm.unsafe_count + Bump(unsafe),
     validator_fail_count |-> sm.validator_fail_count + Bump(~validator_ok),
     cyber_blackout_count |-> sm.cyber_blackout_count + Bump(blackout /\ alert),
     cyber_alert_count |-> sm.cyber_alert_count + Bump(alert /\ ~prev_alert),
     cyber_alert_active_steps |-> sm.cyber_alert_active_steps + Bump(alert),
     cyber_anomaly_steps |-> sm.cyber_anomaly_steps + Bump(anomaly_now),
     attack_active_steps |-> sm.attack_active_steps + Bump(attack_active),
     cyber_first_timestep |->
        IF alert /\ ~prev_alert /\ IsNone(sm.cyber_first_timestep)
        THEN Some(step) ELSE sm.cyber_first_timestep,
     ai_forecast_count |-> sm.ai_forecast_count + Bump(ai_forecast),
     ai_trigger_count |-> sm.ai_trigger_count + Bump(ai_triggered)]

GeneratorSizings == {KW(20), KW(2000)}
SolarSizing == KW(900)
InitialSocs == {SocFrac(25), SocFrac(30), SocFrac(36), SocFrac(40), SocFrac(50), SocFrac(60),
                SocFrac(100)}
TrueLoads == {KW(0), KW(20), KW(100), KW(700)}
SolarProfile == {KW(0), KW(90), KW(600), KW(1000)}
ForecastOutputs == {<<>>, <<KW(800)>>, <<KW(10), KW(20)>>}

AttackLists ==
    {<<>>,
     <<SocSpoof(0, 0, SocFrac(95))>>,
     <<SocSpoof(1, 0 - 1, SocFrac(95))>>,
     <<LoadSpoof(0, 0, 50, 0)>>,
     <<SocSpoof(0, 0 - 1, SocFrac(10))>>,
     <<SolarSpoof(1, 1, 100, KW(10)), SocSpoof(0, 0 - 1, SocFrac(52))>>}

StubControllers ==
    {StubController("STOP", "DISCHARGE", 0, "NORMAL", FALSE, None),
     StubController("HOLD", "PROTECT", 2, "EMERGENCY", FALSE, Some(FALSE)),
     StubController("START", "DISCHARGE", 1, "STRESSED", FALSE, Some(TRUE)),
     StubController("START", "PROTECT", 3, "SAFE_MODE", TRUE, None),
     ScriptedController(MkDecision("START", "DISCHARGE", 0, "NORMAL", FALSE, "stub"),
                        MkDecision("HOLD", "DISCHARGE", 0, "NORMAL", FALSE, "stub"))}

\* The simulator and its collaborators as constructed, and the arguments of run.
SimConstructedWith(sizing, gen_max, soc_init, ctl, has_forecaster, attacks, h) ==
    /\ CyberIdle
    /\ CtlIdle
    /\ CheckIdle
    /\ BatteryIdle
    /\ calls = 0
    /\ controller = ctl
    /\ battery = [capacity |-> sizing.capacity, soc |-> soc_init,
                  max_charge_kw |-> sizing.max_charge_kw,
                  max_discharge_kw |-> sizing.max_discharge_kw]
    /\ generator = [max_power_kw |-> gen_max, is_on |-> FALSE]
    /\ solar = [max_power_kw |-> SolarSizing]
    /\ forecaster = has_forecaster
    /\ history_len = 0
    /\ history_last = None
    /\ profile = NoProfile
    /\ attack = attacks
    /\ horizon = h
    /\ t = 0
    /\ pc = "run"
    /\ final = NoFinal
    /\ n_results = 0
    /\ record = NoRecord
    /\ prev = PrevInit
    /\ summary = SummaryInit

\* A simulator constructed without a forecaster
SimConstructed(sizing, gen_max, soc_init, ctl, attacks, h) ==
    /\ SimConstructedWith(sizing, gen_max, soc_init, ctl, FALSE, attacks, h)
    /\ TwinIdle

InitShipped ==
    \E sizing \in BatterySizings, gen_max \in GeneratorSizings, soc_init \in InitialSocs,
       attacks \in AttackLists, h \in 1..MaxHorizon :
        SimConstructed(sizing, gen_max, soc_init, Shipped, attacks, h)

InitStub ==
    \E soc_init \in {SocFrac(30), SocFrac(50)}, ctl \in StubControllers,
       attacks \in {<<>>, <<SocSpoof(1, 0 - 1, SocFrac(95))>>, <<LoadSpoof(0, 0, 50, 0)>>},
       h \in 1..MaxHorizon :
        SimConstructed([capacity |-> KW(100), max_charge_kw |-> KW(50),
                        max_discharge_kw |-> KW(50)],
                       KW(2000), soc_init, ctl, attacks, h)

InitSim == InitShipped \/ InitStub

\* One iteration of "for t in range(horizon)": lines 81-408.  A SafetyViolation
\* leaves the loop before the record, the counters and self._prev_* are written;
\* the assets, the detector and the controller keep what the step did to them.
\* "supply_kw + POWER_EPS_KW < served_load_kw" is "supply_kw < served_load_kw" at
\* the resolution of the model.
\* loads and solars are the values the profiles may hold at the step.
TimeStepOn(loads, solars) ==
    /\ pc = "run"
    /\ t < horizon
    /\ \E true_load_kw \in loads, solar_kw_raw \in solars,
          predicted \in (IF forecaster /\ history_len + 1 >= FORECAST_MIN_HISTORY
                         THEN ForecastOutputs ELSE {<<>>}) :
        \E solar_kw \in {SolarGetPower(solar, solar_kw_raw)} :
        \E s \in {Sense(attack, t, true_load_kw, solar_kw, battery.soc)} :
        \E sd \in {SensorData(s, true_load_kw, solar_kw, battery.soc)} :
        \E cyber1 \in {Evaluate(cyber, sd)} :
        \E load_forecast \in {LoadForecast(forecaster, history_len + 1, predicted)} :
        \E r \in {ControllerDecide(controller, ctl_state, s.sensed_solar_kw,
                                   s.sensed_load_kw, battery.soc, load_forecast,
                                   cyber1.alert_active)} :
        \E d \in {Override(r, cyber1.alert_active, sd)} :
        \E served_load_kw \in {ServedLoad(true_load_kw, d.load_shed_level)} :
        \E x \in {Dispatch(d, served_load_kw, solar_kw, generator, battery)} :
        LET alert == cyber1.alert_active
            ai_triggered == r.decision.reason = REASON_PREDICTIVE
            unsafe == x.battery.soc < SOC_UNSAFE
            args == [soc |-> x.battery.soc, generator_cmd |-> d.generator_cmd,
                     generator_available |-> TRUE,
                     load_shed_level |-> d.load_shed_level,
                     safe_mode |-> d.state = "SAFE_MODE"]
            raised == CheckRaises(args.soc, args.generator_cmd, args.generator_available,
                                  args.load_shed_level, args.safe_mode)
            validator_ok == ValidatePhase5(x.blackout, x.critical_served, x.battery.soc)
        IN  /\ sensor_data' = sd
            /\ cyber' = cyber1
            /\ cyber_alert' = alert
            /\ profile' = [load_kw |-> true_load_kw, solar_kw |-> solar_kw_raw]
            /\ history_len' = history_len + 1
            /\ history_last' = Some(true_load_kw)
            /\ check_args' = args
            /\ check_raised' = raised
            /\ decide_args' =
                  [solar_kw |-> s.sensed_solar_kw, load_kw |-> s.sensed_load_kw,
                   soc |-> battery.soc, load_forecast |-> load_forecast,
                   generator_available |-> TRUE, cyber_anomaly |-> alert,
                   state |-> ctl_state]
            /\ ctl_state' = r.state
            /\ decision' = r.decision
            /\ final' = d
            /\ generator' = x.generator
            /\ battery' = x.battery
            /\ pc' = AfterCheck(raised)
            /\ IF pc' = "violation"
               THEN UNCHANGED <<t, n_results, record, prev, summary>>
               ELSE /\ pc' = "run"
                    /\ t' = t + 1
                    /\ n_results' = n_results + 1
                    /\ record' =
                         [time |-> t, load_kw |-> true_load_kw,
                          sensed_load_kw |-> s.sensed_load_kw, solar_kw |-> solar_kw,
                          sensed_solar_kw |-> s.sensed_solar_kw,
                          generator_kw |-> x.gen_kw, battery_kw |-> x.discharged_kw,
                          battery_charge_kw |-> x.battery_charge_kw,
                          battery_soc |-> x.battery.soc,
                          generator_cmd |-> d.generator_cmd,
                          generator_on |-> x.generator.is_on, state |-> d.state,
                          cyber_alert |-> alert,
                          cyber_anomaly_now |-> cyber1.anomaly_now,
                          cyber_reason |-> cyber1.reason,
                          attack_active |-> s.attack_active,
                          ai_forecast |-> load_forecast.given,
                          ai_triggered |-> ai_triggered,
                          load_shed_level |-> d.load_shed_level,
                          served_load_kw |-> served_load_kw, blackout |-> x.blackout,
                          critical_served |-> x.critical_served, unsafe |-> unsafe,
                          validator_ok |-> validator_ok,
                          reason |-> d.reason]
                    /\ prev' = [cyber_alert |-> alert, blackout |-> x.blackout,
                                critical_lost |-> ~x.critical_served, unsafe |-> unsafe]
                    /\ summary' = Count(summary, t, s.attack_active, alert,
                                        cyber1.anomaly_now, prev.cyber_alert,
                                        load_forecast.given, ai_triggered, x.blackout,
                                        x.critical_served, unsafe, validator_ok)
    /\ UNCHANGED <<calls, controller, solar, forecaster, attack, horizon, battery_call>>

TimeStep == TimeStepOn(TrueLoads, SolarProfile) /\ UNCHANGED twin

\* The loop is over: run builds the summary and returns the results (lines 410-427)
ReturnResults ==
    /\ pc = "run"
    /\ t = horizon
    /\ pc' = "done"
    /\ UNCHANGED <<cyberVars, ctlVars, checkVars, battery_call, twin, calls, controller, battery,
                   generator, solar, forecaster, history_len, history_last, profile, attack,
                   horizon, t, final, n_results, record, prev, summary>>

NextSim == TimeStep \/ ReturnResults

SpecSim == InitSim /\ [][NextSim]_vars

\* Runs of the shipped controller from an initial SOC in [0.30, 1.0]
InitShippedCharged == InitShipped /\ battery.soc >= SOC_FLOOR
SpecShipped == InitShippedCharged /\ [][NextSim]_vars

\* A second call of run on the same simulator object.  The prologue of run
\* (lines 50-80) makes a new results list and new counters; the detector, the
\* controller, the assets, the history and self._prev_* are attributes that __init__
\* set once and that run never reassigns, so they carry over.  calls counts the calls
\* of run that came before the current one.
MaxRuns == 2

RerunAttacks == {<<>>, <<SocSpoof(0, 0, SocFrac(95))>>}

RunAgain ==
    /\ pc \in {"done", "violation"}
    /\ calls + 1 < MaxRuns
    /\ calls' = calls + 1
    /\ \E attacks \in RerunAttacks, h \in 1..MaxHorizon :
          /\ attack' = attacks
          /\ horizon' = h
    /\ pc' = "run"
    /\ t' = 0
    /\ n_results' = 0
    /\ record' = NoRecord
    /\ final' = NoFinal
    /\ profile' = NoProfile
    /\ summary' = SummaryInit
    /\ UNCHANGED <<cyberVars, ctlVars, checkVars, battery_call, twin, controller, battery,
                   generator, solar, forecaster, history_len, history_last, prev>>

InitRerun ==
    \E soc_init \in {SocFrac(50), SocFrac(60)}, attacks \in RerunAttacks, h \in 1..MaxHorizon :
        SimConstructed([capacity |-> KW(100), max_charge_kw |-> KW(50),
                        max_discharge_kw |-> KW(50)],
                       KW(2000), soc_init, Shipped, attacks, h)

NextRerun == TimeStep \/ ReturnResults \/ RunAgain

SpecRerun == InitRerun /\ [][NextRerun]_vars

\* A simulator with enough history for the forecaster.  An earlier attack-free call
\* of run walked FORECAST_MIN_HISTORY - 1 steps of zero load and zero solar: the
\* battery kept its charge, the detector saw the same frame every step and the shipped
\* controller gave the same answer every step.  self.history then holds
\* FORECAST_MIN_HISTORY - 1 entries, so the first step of the next call is the first
\* one that can ask the forecaster.
QuietHistory == FORECAST_MIN_HISTORY - 1
WarmSocs == {SocFrac(40), SocFrac(50), SocFrac(60)}

SimWarm(soc_init, has_forecaster, attacks, h) ==
    \E q \in {Decide("NORMAL", 0, 0, soc_init, NoForecast, TRUE, FALSE)} :
        /\ cyber = [CyberInit EXCEPT !.last_soc = Some(soc_init), !.last_load = Some(0),
                                     !.last_solar = Some(0)]
        /\ sensor_data = SensorData(Sense(<<>>, QuietHistory - 1, 0, 0, soc_init), 0, 0, soc_init)
        /\ cyber_alert = FALSE
        /\ calls = 1
        /\ ctl_state = q.state
        /\ decide_args = [solar_kw |-> 0, load_kw |-> 0, soc |-> soc_init,
                          load_forecast |-> NoForecast, generator_available |-> TRUE,
                          cyber_anomaly |-> FALSE, state |-> q.state]
        /\ decision = q.decision
        /\ check_args = [soc |-> soc_init, generator_cmd |-> q.decision.generator_cmd,
                         generator_available |-> TRUE,
                         load_shed_level |-> q.decision.load_shed_level,
                         safe_mode |-> FALSE]
        /\ check_raised = FALSE
        /\ BatteryIdle
        /\ TwinIdle
        /\ controller = Shipped
        /\ battery = [capacity |-> KW(100), soc |-> soc_init,
                      max_charge_kw |-> KW(50), max_discharge_kw |-> KW(50)]
        /\ generator = [max_power_kw |-> KW(2000),
                        is_on |-> q.decision.generator_cmd = "START"]
        /\ solar = [max_power_kw |-> SolarSizing]
        /\ forecaster = has_forecaster
        /\ history_len = QuietHistory
        /\ history_last = Some(0)
        /\ profile = NoProfile
        /\ attack = attacks
        /\ horizon = h
        /\ t = 0
        /\ pc = "run"
        /\ final = NoFinal
        /\ n_results = 0
        /\ record = NoRecord
        /\ prev = [cyber_alert |-> FALSE, blackout |-> FALSE, critical_lost |-> TRUE,
                   unsafe |-> soc_init < SOC_UNSAFE]
        /\ summary = SummaryInit

InitForecast ==
    \E soc_init \in WarmSocs, has_forecaster \in BOOLEAN, attacks \in AttackLists,
       h \in 1..MaxHorizon :
        SimWarm(soc_init, has_forecaster, attacks, h)

SpecForecast == InitForecast /\ [][NextSim]_vars

\* The shipped controller everywhere it is used: decide called directly with
\* arbitrary arguments, and decide called by run, from a fresh simulator and from one
\* with enough history for the forecaster.
DirectDecideCall == pc = "idle" /\ DecideCall

InitMicrogrid == InitCtl \/ InitShipped \/ InitForecast

NextMicrogrid == DirectDecideCall \/ TimeStep \/ ReturnResults

SpecMicrogrid == InitMicrogrid /\ [][NextMicrogrid]_vars

\* One long run of a fresh simulator, with or without a forecaster, over a steady
\* load: long enough for self.history to reach FORECAST_MIN_HISTORY entries.
LongHorizon == FORECAST_MIN_HISTORY + 1
LongLoads == {KW(100)}
LongSolars == {KW(0), KW(90)}
LongAttacks == {<<>>, <<LoadSpoof(0, 0 - 1, 50, 0)>>}

InitLong ==
    \E soc_init \in {SocFrac(50), SocFrac(60)}, has_forecaster \in BOOLEAN,
       attacks \in LongAttacks :
        /\ SimConstructedWith([capacity |-> KW(100), max_charge_kw |-> KW(50),
                               max_discharge_kw |-> KW(50)],
                              KW(2000), soc_init, Shipped, has_forecaster, attacks,
                              LongHorizon)
        /\ TwinIdle

LongStep == TimeStepOn(LongLoads, LongSolars) /\ UNCHANGED twin

NextLong == LongStep \/ ReturnResults

SpecLong == InitLong /\ [][NextLong]_vars

\* Runs with no attack configured, over profiles that may hold a negative reading
\* and from a battery whose initial SOC may lie outside [0, 1].
QuietLoads == TrueLoads \cup {KW(0 - 10)}
QuietSolars == SolarProfile \cup {KW(0 - 10)}
QuietSocs == {SocFrac(50), SocFrac(60), SocFrac(100), SocFrac(110)}

InitQuiet ==
    \E sizing \in BatterySizings, gen_max \in GeneratorSizings, soc_init \in QuietSocs,
       h \in 1..MaxHorizon :
        SimConstructed(sizing, gen_max, soc_init, Shipped, <<>>, h)

QuietStep == TimeStepOn(QuietLoads, QuietSolars) /\ UNCHANGED twin

NextQuiet == QuietStep \/ ReturnResults

SpecQuiet == InitQuiet /\ [][NextQuiet]_vars

\* Two runs on the same profiles and assets: the run under its soc_spoof attacks, in
\* the variables of the simulator, and the run with no attack, in twin.  twin holds
\* the second simulator's detector, controller state, battery and generator, where its
\* loop stands, its last record and whether some record of the two runs has differed.
TwinAttacks ==
    {<<>>,
     <<SocSpoof(1, 1, SocFrac(44))>>,
     <<SocSpoof(0, 0 - 1, SocFrac(52))>>,
     <<SocSpoof(0, 0, SocFrac(95))>>}

TwinRecord(step, alert, d, x) ==
    [time |-> step, cyber_alert |-> alert, generator_cmd |-> d.generator_cmd,
     state |-> d.state, load_shed_level |-> d.load_shed_level,
     generator_kw |-> x.gen_kw, battery_kw |-> x.discharged_kw,
     battery_soc |-> x.battery.soc]

NoTwinRecord ==
    [time |-> 0 - 1, cyber_alert |-> FALSE, generator_cmd |-> "None", state |-> "None",
     load_shed_level |-> 0, generator_kw |-> 0, battery_kw |-> 0, battery_soc |-> 0]

\* One loop iteration (lines 81-408) of the attack-free simulator tw on the profile
\* values of the step
CleanStep(tw, step, true_load_kw, solar_kw_raw) ==
    LET solar_kw == SolarGetPower(solar, solar_kw_raw)
        s == Sense(<<>>, step, true_load_kw, solar_kw, tw.battery.soc)
        sd == SensorData(s, true_load_kw, solar_kw, tw.battery.soc)
        cyber1 == Evaluate(tw.cyber, sd)
        r == ControllerDecide(controller, tw.ctl_state, s.sensed_solar_kw,
                              s.sensed_load_kw, tw.battery.soc, NoForecast,
                              cyber1.alert_active)
        d == Override(r, cyber1.alert_active, sd)
        x == Dispatch(d, ServedLoad(true_load_kw, d.load_shed_level), solar_kw,
                      tw.generator, tw.battery)
        raised == CheckRaises(x.battery.soc, d.generator_cmd, TRUE, d.load_shed_level,
                              d.state = "SAFE_MODE")
    IN  [cyber |-> cyber1, ctl_state |-> r.state, battery |-> x.battery,
         generator |-> x.generator, pc |-> AfterCheck(raised),
         record |-> IF raised THEN tw.record
                    ELSE TwinRecord(step, cyber1.alert_active, d, x),
         diverged |-> tw.diverged]

\* The six compared keys of the record just written, against the twin's
SameRecord(rec, twrec) ==
    /\ rec.time = twrec.time
    /\ rec.generator_cmd = twrec.generator_cmd
    /\ rec.state = twrec.state
    /\ rec.load_shed_level = twrec.load_shed_level
    /\ rec.generator_kw = twrec.generator_kw
    /\ rec.battery_kw = twrec.battery_kw
    /\ rec.battery_soc = twrec.battery_soc

InitTwin ==
    \E sizing \in BatterySizings, gen_max \in GeneratorSizings,
       soc_init \in {SocFrac(36), SocFrac(50), SocFrac(60)}, attacks \in TwinAttacks,
       h \in 1..MaxHorizon :
        /\ SimConstructedWith(sizing, gen_max, soc_init, Shipped, FALSE, attacks, h)
        /\ twin = [cyber |-> CyberInit, ctl_state |-> "NORMAL", battery |-> battery,
                   generator |-> generator, pc |-> "run", record |-> NoTwinRecord,
                   diverged |-> FALSE]

\* Both simulators take the step t of their loops on the same profile entries.  A run
\* that has raised SafetyViolation takes no more steps.
TwinStep ==
    /\ TimeStepOn(TrueLoads, SolarProfile)
    /\ twin' =
          IF twin.pc = "run"
          THEN LET c == CleanStep(twin, t, profile'.load_kw, profile'.solar_kw)
               IN  [c EXCEPT !.diverged =
                       \/ twin.diverged
                       \/ (pc' = "violation") # (c.pc = "violation")
                       \/ pc' = "run" /\ c.pc = "run" /\ ~SameRecord(record', c.record)]
          ELSE [twin EXCEPT !.diverged = twin.diverged \/ pc' = "run"]

NextTwin == TwinStep \/ ReturnResults

SpecTwin == InitTwin /\ [][NextTwin]_vars

\* Fixed-point arithmetic loses nothing: every recorded quantity is exact
ExactArithmetic ==
    /\ EnergyOf(battery.soc, battery.capacity) * SocScale = battery.soc * battery.capacity
    /\ SocOf(battery_call.energy, battery.capacity) * battery.capacity
          = battery_call.energy * SocScale
    /\ \A a \in 1..Len(attack) : \A l \in TrueLoads : (l * attack[a].scale) % 100 = 0


StepTaken == pc \in {"run", "done", "violation"} /\ final # NoFinal
Recorded == n_results > 0

\* C3: in every timestep of run in which the detector's alert is active, the decision
\* that is dispatched, checked and recorded has generator_cmd = START, state =
\* SAFE_MODE and load_shed_level = 3, whatever the controller object returned.
C3_LoopFailSafe ==
    /\ (StepTaken /\ cyber_alert) =>
          /\ final.generator_cmd = "START"
          /\ final.state = "SAFE_MODE"
          /\ final.load_shed_level = 3
    /\ (Recorded /\ record.cyber_alert) =>
          /\ record.generator_cmd = "START"
          /\ record.state = "SAFE_MODE"
          /\ record.load_shed_level = 3

\* A stub controller answered STOP / NORMAL / tier 0 under an active alert, and the
\* step was recorded.
C3_Witness ==
    /\ controller.kind = "stub"
    /\ cyber_alert
    /\ decision.generator_cmd = "STOP" /\ decision.state = "NORMAL"
    /\ decision.load_shed_level = 0
    /\ Recorded /\ record.time = t - 1 /\ record.cyber_alert

\* C4: every record run emits has battery_soc >= 0.30, for every load and solar
\* sequence, attack list, battery sizing and initial SOC.
C4_RecordedSocFloor == Recorded => 100 * record.battery_soc >= 30 * SocScale

\* A step that began with the battery below 0.30 was recorded.
C4_Witness ==
    /\ Recorded /\ record.time = t - 1
    /\ 100 * Val(sensor_data.soc_secure) < 30 * SocScale

\* C5: with the shipped controller and an initial SOC in [0.30, 1.0],
\* SafetyInvariants.check passes at every timestep.
C5_NoSafetyViolation == pc # "violation"

\* A frame whose sensed soc is off the secure soc by more than 0.05; a fail-safe record
C8_SocSpoofed(sd) == 100 * Abs(Val(sd.soc) - Val(sd.soc_secure)) > 5 * SocScale
C8_SafeRecord(r) ==
    /\ r.cyber_alert
    /\ r.state = "SAFE_MODE"
    /\ r.generator_cmd = "START"
    /\ r.load_shed_level = 3
\* C8: the record of the first timestep whose sensed soc differs from the secure soc
\* by more than 0.05 has cyber_alert = true, state = SAFE_MODE, generator_cmd = START
\* and load_shed_level = 3, and so has every later record of the run.
C8_SpoofResponse ==
    [][(/\ n_results' = n_results + 1
        /\ \/ C8_SocSpoofed(sensor_data')
           \/ Recorded /\ C8_SafeRecord(record))
       => C8_SafeRecord(record')]_vars

\* The spoof lasted for timestep 0 only; the record of timestep 1 is still fail-safe.
C8_Witness ==
    /\ attack = <<SocSpoof(0, 0, SocFrac(95))>>
    /\ n_results = 2
    /\ ~record.attack_active
    /\ C8_SafeRecord(record)

\* C14: if SafetyInvariants.check fails at timestep t, run ends there with
\* SafetyViolation, with the records of timesteps 0..t-1 only and no summary returned;
\* a run that returns has taken exactly len(load_profile) timesteps, and the records
\* are one per timestep in increasing time order.
C14_ViolationHalts ==
    /\ check_raised <=> pc = "violation"
    /\ pc = "violation" => t < horizon
    /\ pc = "done" => t = horizon
    /\ n_results = t
    /\ Recorded => record.time = n_results - 1

\* The check failed at timestep 1, after timestep 0 had been recorded.
C14_Witness ==
    /\ pc = "violation"
    /\ check_raised
    /\ t = 1
    /\ n_results = 1
    /\ record.time = 0

\* C15: in every step that reaches the validator, validator_ok is false exactly when
\* the step is a blackout, or critical load is not served, or the battery soc is below
\* 0.20; a false validator_ok adds one to validator_fail_count and the loop goes on.
C15_ValidationTracked ==
    [][n_results' = n_results + 1 =>
          /\ ~record'.validator_ok <=>
                \/ record'.blackout
                \/ ~record'.critical_served
                \/ 100 * record'.battery_soc < 20 * SocScale
          /\ summary'.validator_fail_count =
                summary.validator_fail_count + (IF record'.validator_ok THEN 0 ELSE 1)
          /\ pc' = "run"
          /\ t' = t + 1]_vars

\* Timestep 0 failed validation, the run went on and timestep 1 passed it.
C15_Witness ==
    /\ n_results = 2
    /\ summary.validator_fail_count = 1
    /\ record.validator_ok

\* The window of an attack as the attack contract states it, and the channels an
\* attack list touches at a step
C16_InWindow(a, step) == a.start <= step /\ (a.end < 0 \/ step <= a.end)
C16_Touched(type, step) ==
    \E i \in 1..Len(attack) : attack[i].type = type /\ C16_InWindow(attack[i], step)
C16_Critical(load_kw) == IF load_kw < 30 * PowerScale THEN load_kw ELSE 30 * PowerScale
C16_ShedPercent(tier) ==
    CASE tier = 0 -> 0 [] tier = 1 -> 10 [] tier = 2 -> 30 [] tier = 3 -> 100

\* C16: an attack is applied at timestep t exactly when start <= t and (end < 0 or
\* t <= end); in every step the secure channels given to the detector, the load
\* history, the recorded load_kw and solar_kw and the demand that is shed and
\* dispatched are the ground-truth values, whatever attacks are active.
C16_AttacksCorruptObservedOnly ==
    [][(pc = "run" /\ t < horizon) =>
        LET true_load_kw == profile'.load_kw
            true_solar_kw == IF profile'.solar_kw < solar.max_power_kw
                             THEN profile'.solar_kw ELSE solar.max_power_kw
        IN  /\ sensor_data'.load_kw_secure = Some(true_load_kw)
            /\ sensor_data'.solar_kw_secure = Some(true_solar_kw)
            /\ sensor_data'.soc_secure = Some(battery.soc)
            /\ history_last' = Some(true_load_kw)
            /\ history_len' = history_len + 1
            /\ ~C16_Touched("soc_spoof", t) => sensor_data'.soc = sensor_data'.soc_secure
            /\ ~C16_Touched("load_spoof", t) => sensor_data'.load_kw = Some(true_load_kw)
            /\ ~C16_Touched("solar_spoof", t) => sensor_data'.solar_kw = Some(true_solar_kw)
            /\ \A i \in 1..Len(attack) :
                  C16_InWindow(attack[i], t) =>
                    /\ attack[i].type = "soc_spoof" =>
                          sensor_data'.soc = attack[i].spoof_value
                    /\ attack[i].type = "load_spoof" =>
                          100 * (Val(sensor_data'.load_kw) - attack[i].offset)
                            = true_load_kw * attack[i].scale
                    /\ attack[i].type = "solar_spoof" =>
                          100 * (Val(sensor_data'.solar_kw) - attack[i].offset)
                            = true_solar_kw * attack[i].scale
            /\ n_results' = n_results + 1 =>
                  /\ record'.load_kw = true_load_kw
                  /\ record'.solar_kw = true_solar_kw
                  /\ record'.attack_active <=>
                        \E i \in 1..Len(attack) : C16_InWindow(attack[i], t)
                  /\ 100 * (record'.served_load_kw - C16_Critical(true_load_kw))
                        = (true_load_kw - C16_Critical(true_load_kw))
                            * (100 - C16_ShedPercent(record'.load_shed_level))
                  /\ record'.blackout <=>
                        true_solar_kw + record'.generator_kw + record'.battery_kw
                          < record'.served_load_kw]_vars

\* A load spoof halved the sensed load of a recorded step; the record kept the truth.
C16_Witness ==
    /\ Recorded
    /\ record.attack_active
    /\ record.load_kw = KW(100)
    /\ record.sensed_load_kw = KW(50)
    /\ sensor_data.load_kw_secure = Some(KW(100))
    /\ history_last = Some(KW(100))

\* The shed fraction (percent) of a tier and the critical part of a load
C17_ShedPercent(tier) ==
    CASE tier = 0 -> 0 [] tier = 1 -> 10 [] tier = 2 -> 30 [] tier = 3 -> 100
C17_Critical(load_kw) == IF load_kw < 30 * PowerScale THEN load_kw ELSE 30 * PowerScale

\* C17: in every step served_load_kw = c + (load - c) * (1 - f) with c = min(load, 30 kW)
\* and f = 0, 0.10, 0.30, 1.0 for tiers 0..3; served load is non-increasing in the tier,
\* tier 0 serves the whole load, tier 3 serves c, and served_load_kw >= c for every tier.
C17_LoadShedding ==
    (Recorded /\ record.load_shed_level \in 0..3) =>
        /\ 100 * (record.served_load_kw - C17_Critical(record.load_kw))
              = (record.load_kw - C17_Critical(record.load_kw))
                  * (100 - C17_ShedPercent(record.load_shed_level))
        /\ record.load_shed_level = 0 => record.served_load_kw = record.load_kw
        /\ record.load_shed_level = 3 => record.served_load_kw = C17_Critical(record.load_kw)
        /\ record.served_load_kw >= C17_Critical(record.load_kw)
        /\ \A k \in 0..2 :
              ServedLoad(record.load_kw, k + 1) <= ServedLoad(record.load_kw, k)

\* Tier 2 on a 700 kW load: 30 kW critical plus 70% of the other 670 kW.
C17_Witness ==
    /\ Recorded
    /\ record.load_shed_level = 2
    /\ record.load_kw = KW(700)
    /\ record.served_load_kw = KW(499)

\* The demand solar leaves unmet in the last record, and the generator's share
C18_Unmet == record.served_load_kw - record.solar_kw
C18_GeneratorClamped ==
    /\ record.generator_kw <= Min(generator.max_power_kw, Max(0, C18_Unmet))
    /\ ~record.generator_on => record.generator_kw = 0
C18_BatteryOnlyOnDeficit ==
    record.battery_kw > 0 =>
        record.solar_kw + record.generator_kw < record.served_load_kw
C18_TotalWithinUnmet ==
    record.generator_kw + record.battery_kw <= Max(0, C18_Unmet)

\* C18 as stated: generator_kw <= min(generator max power, max(0, served - solar)) and 0
\* when the generator is off; battery_kw <= min(battery max discharge, served - solar -
\* generator_kw) and positive only when solar plus generator is below the served load.
C18_DispatchPriorityAsStated ==
    Recorded =>
        /\ C18_GeneratorClamped
        /\ record.battery_kw
              <= Min(battery.max_discharge_kw, C18_Unmet - record.generator_kw)
        /\ C18_BatteryOnlyOnDeficit
        /\ C18_TotalWithinUnmet

\* C18 amended: the battery bound is min(battery max discharge, max(0, served - solar -
\* generator_kw)), the demand still unmet after solar and generator and never negative.
C18_DispatchPriority ==
    Recorded =>
        /\ C18_GeneratorClamped
        /\ record.battery_kw
              <= Min(battery.max_discharge_kw, Max(0, C18_Unmet - record.generator_kw))
        /\ C18_BatteryOnlyOnDeficit
        /\ C18_TotalWithinUnmet

\* Solar, a generator at its limit and the battery at its limit all served one step.
C18_Witness ==
    /\ Recorded
    /\ record.solar_kw > 0
    /\ record.generator_kw = generator.max_power_kw
    /\ record.battery_kw = battery.max_discharge_kw
    /\ record.blackout

\* The pure SOC integration of one step
C20_Integrate(soc, charge_kw, discharge_kw, capacity) ==
    Max(0, Min(SocScale, soc + SocOf(charge_kw, capacity) - SocOf(discharge_kw, capacity)))

\* C20: applying soc := clamp(soc + battery_charge_kw / capacity - battery_kw / capacity,
\* 0, 1) to the SOC a recorded step started from gives that record's battery_soc, for
\* every initial SOC, load and solar sequence.
C20_RoundTrip ==
    (Recorded /\ pc # "violation") =>
        record.battery_soc =
            C20_Integrate(Val(sensor_data.soc_secure), record.battery_charge_kw,
                          record.battery_kw, battery.capacity)

\* C30: after each timestep the generator is on if the step's generator_cmd is START,
\* off if it is STOP and as the previous step left it if it is HOLD; its rating never
\* changes; the recorded generator_kw is positive only when the generator is on, and
\* nothing but a timestep touches the generator.
C30_GeneratorFollowsCommands ==
    [][IF pc = "run" /\ t < horizon
       THEN /\ final'.generator_cmd = "START" => generator'.is_on
            /\ final'.generator_cmd = "STOP" => ~generator'.is_on
            /\ final'.generator_cmd = "HOLD" => generator'.is_on = generator.is_on
            /\ final'.generator_cmd \in {"START", "STOP", "HOLD"}
            /\ generator'.max_power_kw = generator.max_power_kw
            /\ n_results' > n_results =>
                  /\ record'.generator_on = generator'.is_on
                  /\ record'.generator_kw > 0 => generator'.is_on
       ELSE generator' = generator]_vars

\* The second step of a run holds a generator that the first step started, and the
\* generator delivers power in the held step.
C30_Witness ==
    /\ Recorded
    /\ record.time = 1
    /\ record.generator_cmd = "HOLD"
    /\ generator.is_on
    /\ record.generator_kw > 0

\* C24: at the first timestep of every call of run, a second call on the same
\* simulator included, the detector starts with alert_active = false and no
\* last-known values.
C24_DetectorFreshPerRun ==
    (pc = "run" /\ t = 0) =>
        /\ ~cyber.alert_active
        /\ IsNone(cyber.last_soc)
        /\ IsNone(cyber.last_load)
        /\ IsNone(cyber.last_solar)

\* C29: no record of a run has both cyber_alert = true and ai_triggered = true, even
\* when a forecast is available and the predictive rule's guard holds at that step.
C29_FailSafeBeforePredictive ==
    Recorded => ~(record.cyber_alert /\ record.ai_triggered)

\* A step under alert that had a non-empty forecast and met the predictive guard.
C29_Witness ==
    /\ Recorded
    /\ record.cyber_alert
    /\ record.ai_forecast
    /\ ForecastTruthy(decide_args.load_forecast)
    /\ decide_args.generator_available
    /\ PredictiveGuard(decide_args.load_kw, decide_args.soc, decide_args.load_forecast)
    /\ ~record.ai_triggered

\* C21: decide with load_forecast = None and decide with an empty forecast return the
\* same Decision and leave the same controller state as each other, for all other
\* inputs and every previous state; and a run with no forecaster configured has
\* ai_forecast false in every record.
C21_MissingForecast ==
    /\ (decision # NoDecision /\ ~ForecastTruthy(decide_args.load_forecast)) =>
          \A f \in {NoForecast, Forecast(<<>>)} :
              [state |-> ctl_state, decision |-> decision]
                  = Decide(decide_args.state, decide_args.solar_kw, decide_args.load_kw,
                           decide_args.soc, f, decide_args.generator_available,
                           decide_args.cyber_anomaly)
    /\ (Recorded /\ ~forecaster) =>
          /\ ~record.ai_forecast
          /\ decide_args.load_forecast = NoForecast
          /\ summary.ai_forecast_count = 0

\* A run without a forecaster finished a step for which the history was long enough.
C21_Witness ==
    /\ pc = "done"
    /\ Recorded
    /\ ~forecaster
    /\ history_len >= FORECAST_MIN_HISTORY
    /\ ~record.ai_forecast
    /\ decide_args.load_forecast = NoForecast

\* C26: every Decision returned by decide with load_shed_level = 3 has safe_mode =
\* true, and in every step of a run load_shed_level = 3 occurs only when the cyber
\* alert is active.
C26_Tier3OnlyInSafeMode ==
    /\ (decision # NoDecision /\ decision.load_shed_level = 3) => decision.safe_mode
    /\ (StepTaken /\ final.load_shed_level = 3) => cyber_alert
    /\ (Recorded /\ record.load_shed_level = 3) => record.cyber_alert

\* A recorded step shed everything but the critical load, under an active alert.
C26_Witness ==
    /\ Recorded
    /\ record.load_shed_level = 3
    /\ record.cyber_alert
    /\ decision.load_shed_level = 3
    /\ decision.safe_mode

\* C38: in a step with no cyber alert whose Decision has battery_mode = PROTECT, the
\* loop draws no power from the battery (battery_kw = 0).
C38_ProtectKeepsBatteryOut ==
    (Recorded /\ ~record.cyber_alert /\ final.battery_mode = "PROTECT") =>
        record.battery_kw = 0

\* Total supply of a recorded step: solar, generator and battery discharge
C39_Supply == record.solar_kw + record.generator_kw + record.battery_kw

\* C39: in every record, critical_served = false implies that total supply was below
\* the step's critical demand min(load, 30 kW); in particular a step that is not a
\* blackout has critical_served = true, also when the true load is below 30 kW.
C39_CriticalServedTruthful ==
    Recorded =>
        /\ ~record.critical_served => C39_Supply < Min(record.load_kw, CRITICAL_LOAD_KW)
        /\ ~record.blackout => record.critical_served

\* C34: in every record of a run, battery_kw and battery_charge_kw are not both
\* positive; the battery is charged only in steps where solar exceeds the served load,
\* and then by at most min(surplus, max charge rate).
C34_NoChargeWhileDischarging ==
    Recorded =>
        /\ ~(record.battery_kw > 0 /\ record.battery_charge_kw > 0)
        /\ record.battery_charge_kw >= 0
        /\ record.battery_charge_kw > 0 =>
              /\ record.solar_kw > record.served_load_kw
              /\ record.battery_charge_kw
                    <= Min(record.solar_kw - record.served_load_kw, battery.max_charge_kw)

\* A surplus larger than the charge rate was stored at the charge rate.
C34_Witness ==
    /\ Recorded
    /\ record.battery_charge_kw = battery.max_charge_kw
    /\ record.solar_kw - record.served_load_kw > battery.max_charge_kw
    /\ record.battery_kw = 0

\* What a step that may use the battery dispatches, from the SOC the step began with
C36_NormalDispatch ==
    Dispatch([final EXCEPT !.use_battery = TRUE], record.served_load_kw, record.solar_kw,
             generator, [battery EXCEPT !.soc = Val(sensor_data.soc_secure)])

\* C36: in a step with the cyber alert active the battery is excluded from dispatch
\* (battery_kw = 0 and battery_charge_kw = 0) exactly when the sensed, possibly
\* spoofed, soc of that step is below 0.30, whatever the true SOC is; otherwise it is
\* dispatched as in a normal step.
C36_SensedSocDecidesBattery ==
    /\ (StepTaken /\ cyber_alert) =>
          (final.use_battery <=> ~(Val(sensor_data.soc) < SOC_FLOOR))
    /\ (Recorded /\ pc # "violation" /\ record.cyber_alert) =>
          IF Val(sensor_data.soc) < SOC_FLOOR
          THEN /\ record.battery_kw = 0
               /\ record.battery_charge_kw = 0
               /\ record.battery_soc = Val(sensor_data.soc_secure)
          ELSE /\ record.battery_kw = C36_NormalDispatch.discharged_kw
               /\ record.battery_charge_kw = C36_NormalDispatch.battery_charge_kw
               /\ record.battery_soc = C36_NormalDispatch.battery.soc

\* A spoofed low reading kept a charged battery out of a step that ended in blackout.
C36_Witness ==
    /\ Recorded /\ pc # "violation"
    /\ record.cyber_alert
    /\ Val(sensor_data.soc) < SOC_FLOOR
    /\ Val(sensor_data.soc_secure) > SOC_FLOOR
    /\ ~final.use_battery
    /\ record.blackout
    /\ record.battery_kw = 0

\* C37: if the generator's max power is at least the critical floor (30 kW) and the
\* solar input is non-negative, no step with the cyber alert active is a blackout, for
\* every load sequence, battery state and attack list; cyber_blackout_count stays 0.
C37_NoBlackoutInSafeMode ==
    (Recorded /\ generator.max_power_kw >= CRITICAL_LOAD_KW /\ profile.solar_kw >= 0) =>
        /\ record.cyber_alert => ~record.blackout
        /\ summary.cyber_blackout_count = 0

\* Under alert, with no solar and the battery kept out, the generator alone carried
\* the critical part of a larger load.
C37_Witness ==
    /\ Recorded /\ pc # "violation"
    /\ record.cyber_alert
    /\ record.load_kw > CRITICAL_LOAD_KW
    /\ record.solar_kw = 0
    /\ ~final.use_battery
    /\ record.generator_kw = CRITICAL_LOAD_KW
    /\ record.served_load_kw = CRITICAL_LOAD_KW
    /\ ~record.blackout

\* C31: on a fresh simulator the forecaster is consulted at timestep t only if a
\* forecaster is configured and at least 24 load-history entries exist, the entry for
\* t included, so records for t < 23 have ai_forecast = false and ai_triggered =
\* false; the history entries hold the true load, never a spoofed reading.
C31_ForecastGating ==
    Recorded =>
        /\ record.ai_forecast => (forecaster /\ record.time + 1 >= FORECAST_MIN_HISTORY)
        /\ record.time < FORECAST_MIN_HISTORY - 1 =>
              (~record.ai_forecast /\ ~record.ai_triggered)
        /\ pc # "violation" =>
              /\ history_len = record.time + 1
              /\ history_last = Some(record.load_kw)

\* The first step that can see a forecast sees one and starts the generator on it,
\* while the load sensor is not spoofed; and under a load spoof the history entry
\* differs from the sensed load.
C31_Witness ==
    /\ Recorded
    /\ record.time = FORECAST_MIN_HISTORY - 1
    /\ record.ai_forecast
    /\ record.ai_triggered
    /\ history_len = FORECAST_MIN_HISTORY

C31_WitnessSpoofed ==
    /\ Recorded
    /\ record.time = FORECAST_MIN_HISTORY - 1
    /\ record.sensed_load_kw # record.load_kw
    /\ history_last = Some(record.load_kw)

\* The summary and the last record of a run agree on when the alert began
C32_Summary ==
    /\ summary.cyber_alert_count \in {0, 1}
    /\ summary.cyber_alert_count = 1 <=> ~IsNone(summary.cyber_first_timestep)
    /\ Recorded =>
          (record.cyber_alert <=>
              /\ ~IsNone(summary.cyber_first_timestep)
              /\ Val(summary.cyber_first_timestep) <= record.time)
    /\ IF IsNone(summary.cyber_first_timestep)
       THEN summary.cyber_alert_active_steps = 0
       ELSE summary.cyber_alert_active_steps
                = n_results - Val(summary.cyber_first_timestep)
    /\ summary.cyber_anomaly_steps <= summary.cyber_alert_active_steps

\* cyber_first_timestep is written once, by the first record whose cyber_alert is true
C32_FirstTimestepStep ==
    n_results' > n_results =>
        summary'.cyber_first_timestep =
            IF ~IsNone(summary.cyber_first_timestep) THEN summary.cyber_first_timestep
            ELSE IF record'.cyber_alert THEN Some(record'.time)
            ELSE None

\* C32: in the summary of a completed run on a fresh simulator, cyber_alert_count is 0
\* or 1, cyber_first_timestep is the time of the first record with cyber_alert = true
\* (none if there is no such record), cyber_alert_active_steps equals timesteps minus
\* cyber_first_timestep when an alert occurred, and cyber_anomaly_steps <=
\* cyber_alert_active_steps.  The same holds of the counters after every step.
C32_SummaryReflectsLatch == [](C32_Summary) /\ [][C32_FirstTimestepStep]_vars

\* A completed run of two steps whose alert began at the second step.
C32_Witness ==
    /\ pc = "done"
    /\ n_results = 2
    /\ summary.cyber_first_timestep = Some(1)
    /\ summary.cyber_alert_count = 1
    /\ summary.cyber_alert_active_steps = 1
    /\ record.cyber_alert

\* The true readings of the step just taken (primed) against those of the step before:
\* a change beyond the detector's limits, a negative reading or an SOC outside [0, 1].
\* battery.soc is the SOC the step began with, sensor_data.soc_secure the SOC the step
\* before began with.
C33_RealDynamics ==
    \/ profile'.load_kw < 0
    \/ SolarGetPower(solar, profile'.solar_kw) < 0
    \/ battery.soc < 0
    \/ battery.soc > SocScale
    \/ /\ t > 0
       /\ \/ Abs(profile'.load_kw - profile.load_kw) > KW(500)
          \/ Abs(SolarGetPower(solar, profile'.solar_kw)
                    - SolarGetPower(solar, profile.solar_kw)) > KW(800)
          \/ Abs(battery.soc - Val(sensor_data.soc_secure)) > SocFrac(8)

\* C33: in a run with no attack configured the sensed channels equal the secure
\* channels at every step, so the mismatch rules never fire, and a cyber alert is
\* raised only at a step where the true load changed by more than 500 kW, the true
\* solar by more than 800 kW or the battery SOC by more than 0.08 since the previous
\* step, or where a true reading is negative or the SOC is outside [0, 1].
C33_OnlyRealDynamicsAlert ==
    [][(pc = "run" /\ t < horizon /\ attack = <<>>) =>
          /\ sensor_data'.soc = sensor_data'.soc_secure
          /\ sensor_data'.load_kw = sensor_data'.load_kw_secure
          /\ sensor_data'.solar_kw = sensor_data'.solar_kw_secure
          /\ sensor_data'.soc_secure = Some(battery.soc)
          /\ sensor_data'.load_kw_secure = Some(profile'.load_kw)
          /\ cyber'.anomaly_now =>
                cyber'.reason \notin {"soc_mismatch", "load_mismatch", "solar_mismatch"}
          /\ (cyber'.anomaly_now \/ (cyber'.alert_active /\ ~cyber.alert_active)) =>
                C33_RealDynamics]_vars

\* An attack-free run raised the alert at its second step because the battery had
\* really lost more than 0.08 of its charge in the first.
C33_Witness ==
    /\ attack = <<>>
    /\ Recorded
    /\ record.time = 1
    /\ cyber.anomaly_now
    /\ cyber.reason = "soc_jump"
    /\ record.cyber_alert
    /\ record.load_kw >= 0
    /\ record.solar_kw >= 0

\* C40: for two runs on the same profiles and assets, one with no attack and one with
\* soc_spoof attacks that never make the detector alert, every record has the same
\* generator_cmd, state, load_shed_level, generator_kw, battery_kw and battery_soc.
C40_UndetectedSocSpoofCannotSteer ==
    (/\ pc = "done"
     /\ twin # NoTwin
     /\ \A i \in 1..Len(attack) : attack[i].type = "soc_spoof"
     /\ ~cyber.alert_active) =>
        ~twin.diverged

=============================================================================
